---- MODULE Spec2Model ----
(***************************************************************************)
(* The connection registry (DatabaseManager) of sqratch and the Postgres   *)
(* client it drives, as a state machine of concurrent callers.             *)
(*                                                                         *)
(* Every caller runs one registry call at a time.  A call is cut into      *)
(* steps at the places where its code takes a lock it does not already     *)
(* hold or awaits the backend; whatever the code does between two such     *)
(* places is one step.                                                     *)
(***************************************************************************)
EXTENDS Integers, FiniteSets, Sequences, TLC

\* Client objects create_client may build in one behaviour.
MaxClients == 2
\* Statements in the script given to execute_queries.
MaxStmts == 2
\* Registry calls started in one behaviour, over all callers.
MaxCalls == 4
\* Characters of a script over the whole alphabet.
MaxLen == 4
\* Characters of a script made of quotes and terminators only.
MaxQuoteLen == 7
\* Calls made on transaction handles in one behaviour, over all callers.
MaxTxCalls == 3
\* Rows one statement returns or changes.
MaxRows == 2
\* Column rows of one catalog query.
MaxStream == 3
\* Schemas dropped or created by other sessions during one introspection.
MaxDdl == 2
\* Calls made on one client object in one behaviour, over all callers.
MaxClientCalls == 4
\* columns of a row given to sqlx_row_to_row
MaxColumns == 2
\* Rust types that one raw value decodes to
MaxReads == 2
\* calls on AppState in one behaviour
MaxAppCalls == 3

Procs == {"p1", "p2"}
NoProc == "none"
Ids == {"a", "b"}
NoId == "none"
\* DatabaseType; the SQLite client is not among the sources modelled here.
DbTypes == {"Postgres", "MySQL"}
Revs == {1, 2}

ClientIds == 1..MaxClients
NoClient == 0

\* ConnectionInfo: the identity, the backend kind, and rev, which stands for
\* all the other fields (host, port, database, ...).
Cfgs == {c \in [id : Ids, db_type : DbTypes, rev : Revs] :
            c.db_type = "MySQL" => c.rev = 1}
NoCfg == [id |-> NoId, db_type |-> "none", rev |-> 0]

VARIABLES
    connections,    \* DatabaseManager.connections: id -> ConnectionInfo
    clients,        \* DatabaseManager.clients: id -> client object
    connW,          \* the caller holding connections.write()
    cliW,           \* the caller holding clients.write()
    created,        \* the number of client objects built so far
    cinfo,          \* client object -> its connection_info
    cfor,           \* client object -> the id connect() built it for
    slot,           \* client object -> its pool field is Some
    pool,           \* client object -> state of the sqlx pool it built
    inflight,       \* client object -> statements running on its pool
    poolM,          \* client object -> the caller holding its pool mutex
    calls,          \* the number of calls started so far
    pc,             \* caller -> where it is in its call
    loc,            \* caller -> the locals of its call
    ret             \* caller -> what its call returned

\* PostgresClient::execute_queries on one script, and the splitter it calls.
VARIABLES
    sql,            \* the script
    pos,            \* the number of its characters the splitter has read
    scan,           \* the locals of split_sql_statements
    run             \* the locals of execute_queries, the backend's log

\* PostgresTransaction handles and the calls made on them.
VARIABLES
    tx,             \* handle -> its tx field is Some
    txM,            \* handle -> the caller holding the mutex of its tx field
    backend,        \* handle -> what the backend transaction was asked to do
    tcalls,         \* the number of calls started so far
    tcall           \* caller -> the call it is in

\* One variable for each of the remaining parts: a record of the part's state.
VARIABLES
    query,          \* one execute_query call: statement, backend answer, result
    conv,           \* one ConnectionInfo taken through its connection string
    intro,          \* one get_entities call and the catalog it reads
    build,          \* one get_tables_info call over a column-row stream
    pgc,            \* one PostgresClient and the calls made on it
    ser,            \* one sqlx_row_to_row call over the columns of a row
    app             \* AppState.windows, its lock, and the tasks that use it

vars == <<connections, clients, connW, cliW, created, cinfo, cfor, slot, pool,
          inflight, poolM, calls, pc, loc, ret,
          sql, pos, scan, run, tx, txM, backend, tcalls, tcall,
          query, conv, intro, build, pgc, ser, app>>

manager == <<connections, clients, connW, cliW, created, cinfo, cfor, slot,
             pool, inflight, poolM, calls, pc, loc, ret>>
script == <<sql, pos, scan, run>>
transactions == <<tx, txM, backend, tcalls, tcall>>

\* What the actions of one part leave alone: all the other parts.
besideManager == <<script, transactions, query, conv, intro, build, pgc,
    ser, app>>
besideScript == <<manager, transactions, query, conv, intro, build, pgc,
    ser, app>>
besideTransactions == <<manager, script, query, conv, intro, build, pgc,
    ser, app>>
besideQuery == <<manager, script, transactions, conv, intro, build, pgc,
    ser, app>>
besideConv == <<manager, script, transactions, query, intro, build, pgc,
    ser, app>>
besideIntro == <<manager, script, transactions, query, conv, build, pgc,
    ser, app>>
besideBuild == <<manager, script, transactions, query, conv, intro, pgc,
    ser, app>>
besideClient == <<manager, script, transactions, query, conv, intro, build,
    ser, app>>
besideSer == <<manager, script, transactions, query, conv, intro, build, pgc,
    app>>
besideApp == <<manager, script, transactions, query, conv, intro, build, pgc,
    ser>>

registry == <<connections, clients, connW, cliW>>
objects == <<created, cinfo, cfor, slot, pool, inflight, poolM>>

NoLoc == [op |-> "none", id |-> NoId, cfg |-> NoCfg, files |-> {},
          client |-> NoClient, n |-> 0, dials |-> 0]
NoRet == [kind |-> "none", msg |-> "none", client |-> NoClient]

Ok == [NoRet EXCEPT !.kind = "Ok"]
OkClient(c) == [NoRet EXCEPT !.kind = "Ok", !.client = c]
Err(kind, msg) == [NoRet EXCEPT !.kind = kind, !.msg = msg]

\* HashMap::insert, HashMap::remove, HashMap::contains_key
MapInsert(m, k, v) == [m EXCEPT ![k] = v]

\* A faulty remove: the entry stays in the map.
MapRemoveNothing(m, k) == m

\* A faulty remove: the whole map is cleared.
MapRemoveAll(m, k) == [i \in DOMAIN m |-> NoClient]

MapRemove(m, k) == [m EXCEPT ![k] = NoClient]
CfgRemove(m, k) == [m EXCEPT ![k] = NoCfg]
ContainsKey(m, k) == m[k] # NoClient
ContainsCfg(m, k) == m[k] # NoCfg

\* A manager as DatabaseManager::new builds it, no call started.
NoRegistry ==
    /\ connections = [i \in Ids |-> NoCfg]
    /\ clients = [i \in Ids |-> NoClient]
    /\ connW = NoProc
    /\ cliW = NoProc
    /\ created = 0
    /\ cinfo = [c \in ClientIds |-> NoCfg]
    /\ cfor = [c \in ClientIds |-> NoId]
    /\ slot = [c \in ClientIds |-> FALSE]
    /\ pool = [c \in ClientIds |-> "unbuilt"]
    /\ inflight = [c \in ClientIds |-> 0]
    /\ poolM = [c \in ClientIds |-> NoProc]
    /\ calls = 0
    /\ pc = [p \in Procs |-> "idle"]
    /\ loc = [p \in Procs |-> NoLoc]
    /\ ret = [p \in Procs |-> NoRet]

\* The locals of split_sql_statements before the first character.
NoScan == [in_string |-> FALSE, in_identifier |-> FALSE, in_comment |-> FALSE,
           in_block_comment |-> FALSE, previous_char |-> " ",
           current_statement |-> <<>>, statements |-> <<>>]

\* The locals of execute_queries before the call, nothing sent.
NoRun == [phase |-> "none", i |-> 0, results |-> <<>>, sent |-> <<>>,
          ret |-> "none"]

\* No script is being executed.
NoScript ==
    /\ sql = <<>>
    /\ pos = 0
    /\ scan = NoScan
    /\ run = NoRun

Handles == {"t1", "t2"}
NoHandle == "none"
Callers == {"c1", "c2", "c3"}
NoTCall == [pc |-> "idle", h |-> NoHandle, op |-> "none", k |-> 0, ret |-> "none"]

\* No transaction handle is in use.
NoTransactions ==
    /\ tx = [h \in Handles |-> FALSE]
    /\ txM = [h \in Handles |-> NoProc]
    /\ backend = [h \in Handles |-> <<>>]
    /\ tcalls = 0
    /\ tcall = [c \in Callers |-> NoTCall]

\* None of the remaining parts is in use.
NoQuery == [phase |-> "none"]
NoConv == [phase |-> "none"]
NoIntro == [phase |-> "none"]
NoBuild == [phase |-> "none"]
NoClientCalls == [phase |-> "none"]
NoSer == [phase |-> "none"]
NoApp == [phase |-> "none"]
NoParts ==
    /\ query = NoQuery
    /\ conv = NoConv
    /\ intro = NoIntro
    /\ build = NoBuild
    /\ ser = NoSer
    /\ app = NoApp
    /\ pgc = NoClientCalls

Init == NoRegistry /\ NoScript /\ NoTransactions /\ NoParts

\* A caller between two calls starts one.
Start(p) ==
    /\ pc[p] = "idle"
    /\ calls < MaxCalls
    /\ calls' = calls + 1
    /\ UNCHANGED besideManager

\* A caller goes on with the call it is in, at label.
At(p, label) ==
    /\ pc[p] = label
    /\ UNCHANGED <<calls, besideManager>>

\* The call returns r to its caller.
Finish(p, l, r) ==
    /\ pc' = [pc EXCEPT ![p] = "done"]
    /\ loc' = [loc EXCEPT ![p] = l]
    /\ ret' = [ret EXCEPT ![p] = r]

\* The call goes on at label.
Goto(p, label, l) ==
    /\ pc' = [pc EXCEPT ![p] = label]
    /\ loc' = [loc EXCEPT ![p] = l]
    /\ UNCHANGED ret

Call(op, id) == [NoLoc EXCEPT !.op = op, !.id = id]


(***************************************************************************)
(* DatabaseManager: configurations                                         *)
(***************************************************************************)

\* add_connection: stores the configuration under its own id; no client.
AddConnection(p) ==
    /\ Start(p)
    /\ connW = NoProc
    /\ \E connection \in Cfgs :
        /\ connections' = MapInsert(connections, connection.id, connection)
        /\ Finish(p, [Call("add", connection.id) EXCEPT !.cfg = connection], Ok)
    /\ UNCHANGED <<clients, connW, cliW, objects>>

\* What .sqratch/connections of a project may hold: the configurations its
\* JSON files parse to, here at most one Postgres configuration per id.
ProjectDirs == SUBSET {c \in Cfgs : c.db_type = "Postgres" /\ c.rev = 1}

\* load_from_project: reads the directory; a missing or empty one loads
\* nothing.
LoadBegin(p) ==
    /\ Start(p)
    /\ \E files \in ProjectDirs :
        IF files = {}
        THEN Finish(p, Call("load", NoId), Ok)
        ELSE Goto(p, "load_add", [Call("load", NoId) EXCEPT !.files = files])
    /\ UNCHANGED <<registry, objects>>

\* load_from_project: add_connection for the next file, in the order
\* read_dir yields them.
LoadAdd(p) ==
    /\ At(p, "load_add")
    /\ connW = NoProc
    /\ \E connection \in loc[p].files :
        LET l == [loc[p] EXCEPT !.files = @ \ {connection}] IN
        /\ connections' = MapInsert(connections, connection.id, connection)
        /\ IF l.files = {} THEN Finish(p, l, Ok) ELSE Goto(p, "load_add", l)
    /\ UNCHANGED <<clients, connW, cliW, objects>>

\* get_connection
GetConnection(p) ==
    /\ Start(p)
    /\ connW = NoProc
    /\ \E id \in Ids :
        Finish(p, Call("get", id),
               IF ContainsCfg(connections, id)
               THEN Ok
               ELSE Err("NotFound", "Connection not found"))
    /\ UNCHANGED <<registry, objects>>

\* test_connection: reads the configuration under connections.read() and
\* goes on to test a client of its kind that no map ever holds.
TestConnection(p) ==
    /\ Start(p)
    /\ connW = NoProc
    /\ \E id \in Ids :
        IF ~ContainsCfg(connections, id)
        THEN Finish(p, Call("test_connection", id),
                    Err("NotFound", "Connection not found"))
        ELSE Goto(p, "test_dial",
                  [Call("test_connection", id) EXCEPT !.cfg = connections[id]])
    /\ UNCHANGED <<registry, objects>>

\* A caller calls test_connection on a client that connect built.
ClientTestConnection(p) ==
    /\ Start(p)
    /\ \E c \in 1..created :
        Goto(p, "test_dial",
             [Call("client.test_connection", cfor[c]) EXCEPT
                 !.client = c, !.cfg = cinfo[c]])
    /\ UNCHANGED <<registry, objects>>

\* A faulty test: the pool it builds is stored in the client's field.
TestDialStoresPool(p) ==
    /\ At(p, "test_dial")
    /\ IF loc[p].cfg.db_type = "MySQL"
       THEN /\ Finish(p, loc[p], Err("Unsupported", "MySQL support not yet implemented"))
            /\ UNCHANGED <<slot, pool>>
       ELSE \/ /\ Goto(p, "test_query", loc[p])
               /\ IF loc[p].client # NoClient
                  THEN /\ slot' = [slot EXCEPT ![loc[p].client] = TRUE]
                       /\ pool' = [pool EXCEPT ![loc[p].client] = "open"]
                  ELSE UNCHANGED <<slot, pool>>
            \/ /\ Finish(p, loc[p], Err("Connection", "dial failed"))
               /\ UNCHANGED <<slot, pool>>
    /\ UNCHANGED <<registry, created, cinfo, cfor, inflight, poolM>>

\* client.test_connection().  MySqlClient's is a placeholder that fails;
\* PostgresClient's builds a pool of one connection that it keeps in a
\* local, which the backend accepts or refuses.
TestDial(p) ==
    /\ At(p, "test_dial")
    /\ IF loc[p].cfg.db_type = "MySQL"
       THEN /\ Finish(p, loc[p], Err("Unsupported", "MySQL support not yet implemented"))
            /\ UNCHANGED <<slot, pool>>
       ELSE \/ /\ Goto(p, "test_query", loc[p])
               /\ UNCHANGED <<slot, pool>>
            \/ /\ Finish(p, loc[p], Err("Connection", "dial failed"))
               /\ UNCHANGED <<slot, pool>>
    /\ UNCHANGED <<registry, created, cinfo, cfor, inflight, poolM>>

\* PostgresClient::test_connection: SELECT 1 on the pool of its own, which
\* is closed when the statement succeeded.
TestQuery(p) ==
    /\ At(p, "test_query")
    /\ \E r \in {Ok, Err("Query", "statement failed")} : Finish(p, loc[p], r)
    /\ UNCHANGED <<registry, objects>>

\* list_connections: every stored configuration, live or not.
ListConnections(p) ==
    /\ Start(p)
    /\ connW = NoProc
    /\ Finish(p, Call("list", NoId), Ok)
    /\ UNCHANGED <<registry, objects>>

\* is_connected
IsConnected(p) ==
    /\ Start(p)
    /\ cliW = NoProc
    /\ \E id \in Ids :
        Finish(p, Call("is_connected", id),
               [NoRet EXCEPT !.kind = IF ContainsKey(clients, id) THEN "true" ELSE "false"])
    /\ UNCHANGED <<registry, objects>>

\* update_connection, up to the first await: takes connections.write() and
\* checks that the id is stored.
UpdateBegin(p) ==
    /\ Start(p)
    /\ connW = NoProc
    /\ \E id \in Ids, connection \in Cfgs :
        LET l == [Call("update", id) EXCEPT !.cfg = connection] IN
        IF ~ContainsCfg(connections, id)
        THEN /\ Finish(p, l, Err("NotFound", "Connection not found"))
             /\ UNCHANGED connW
        ELSE /\ Goto(p, "upd_clients", l)
             /\ connW' = p
    /\ UNCHANGED <<connections, clients, cliW, objects>>

\* update_connection, holding connections.write(): takes clients.write();
\* with a live client it removes it and drops both locks, with none it
\* stores the new configuration.
UpdateClients(p) ==
    /\ At(p, "upd_clients")
    /\ cliW = NoProc
    /\ LET id == loc[p].id IN
       IF ContainsKey(clients, id)
       THEN /\ clients' = MapRemove(clients, id)
            /\ Goto(p, "disc", [loc[p] EXCEPT !.client = clients[id]])
            /\ UNCHANGED connections
       ELSE /\ connections' = MapInsert(connections, id, loc[p].cfg)
            /\ Finish(p, loc[p], Ok)
            /\ UNCHANGED clients
    /\ connW' = NoProc
    /\ UNCHANGED <<cliW, objects>>

\* update_connection after the client's disconnect: takes
\* connections.write() again and stores the new configuration.
UpdateRelock(p) ==
    /\ At(p, "upd_relock")
    /\ connW = NoProc
    /\ connections' = MapInsert(connections, loc[p].id, loc[p].cfg)
    /\ Finish(p, loc[p], Ok)
    /\ UNCHANGED <<clients, connW, cliW, objects>>

\* remove_connection, up to the first await: takes clients.write(); with a
\* live client it removes it and drops the lock, with none it keeps the lock.
RemoveBegin(p) ==
    /\ Start(p)
    /\ cliW = NoProc
    /\ \E id \in Ids :
        IF ContainsKey(clients, id)
        THEN /\ clients' = MapRemove(clients, id)
             /\ Goto(p, "disc", [Call("remove", id) EXCEPT !.client = clients[id]])
             /\ UNCHANGED cliW
        ELSE /\ Goto(p, "rem_conns", Call("remove", id))
             /\ cliW' = p
             /\ UNCHANGED clients
    /\ UNCHANGED <<connections, connW, objects>>

\* remove_connection after the client's disconnect: takes clients.write()
\* again.
RemoveRelock(p) ==
    /\ At(p, "rem_relock")
    /\ cliW = NoProc
    /\ cliW' = p
    /\ Goto(p, "rem_conns", loc[p])
    /\ UNCHANGED <<connections, clients, connW, objects>>

\* remove_connection, holding clients.write(): takes connections.write()
\* and removes the configuration.
RemoveConns(p) ==
    /\ At(p, "rem_conns")
    /\ connW = NoProc
    /\ IF ContainsCfg(connections, loc[p].id)
       THEN /\ connections' = CfgRemove(connections, loc[p].id)
            /\ Finish(p, loc[p], Ok)
       ELSE /\ Finish(p, loc[p], Err("NotFound", "Connection not found"))
            /\ UNCHANGED connections
    /\ cliW' = NoProc
    /\ UNCHANGED <<clients, connW, objects>>

(***************************************************************************)
(* DatabaseManager: live clients                                           *)
(***************************************************************************)

\* A faulty connect: the live client is not looked up, every call builds
\* and dials a new client.
ConnectBeginNoCheck(p) ==
    /\ Start(p)
    /\ cliW = NoProc
    /\ \E id \in Ids :
        /\ created + Cardinality({q \in Procs : pc[q] = "con_get"}) < MaxClients
        /\ Goto(p, "con_get", Call("connect", id))
    /\ UNCHANGED <<registry, objects>>

\* connect, the block under clients.read(): a live client is returned as
\* it is; with none the call goes on to read the configuration.
ConnectBegin(p) ==
    /\ Start(p)
    /\ cliW = NoProc
    /\ \E id \in Ids :
        IF ContainsKey(clients, id)
        THEN Finish(p, Call("connect", id), OkClient(clients[id]))
        ELSE /\ created + Cardinality({q \in Procs : pc[q] = "con_get"}) < MaxClients
             /\ Goto(p, "con_get", Call("connect", id))
    /\ UNCHANGED <<registry, objects>>

\* connect: get_connection under connections.read(), then create_client,
\* which builds a client object around a copy of the configuration.
ConnectGet(p) ==
    /\ At(p, "con_get")
    /\ connW = NoProc
    /\ LET id == loc[p].id
           c == created + 1 IN
       IF ~ContainsCfg(connections, id)
       THEN /\ Finish(p, loc[p], Err("NotFound", "Connection not found"))
            /\ UNCHANGED <<created, cinfo, cfor>>
       ELSE /\ created' = c
            /\ cinfo' = [cinfo EXCEPT ![c] = connections[id]]
            /\ cfor' = [cfor EXCEPT ![c] = id]
            /\ Goto(p, "con_dial", [loc[p] EXCEPT !.client = c])
    /\ UNCHANGED <<registry, slot, pool, inflight, poolM>>

\* A faulty connect: a refused dial is tried once more before the call
\* gives up.
ConnectDialRetries(p) ==
    /\ At(p, "con_dial")
    /\ LET c == loc[p].client
           l == [loc[p] EXCEPT !.dials = @ + 1] IN
       /\ poolM[c] = NoProc
       /\ IF cinfo[c].db_type = "MySQL"
          THEN /\ Finish(p, loc[p], Err("Unsupported", "MySQL support not yet implemented"))
               /\ UNCHANGED <<slot, pool>>
          ELSE \E dialed \in BOOLEAN :
                IF dialed
                THEN /\ slot' = [slot EXCEPT ![c] = TRUE]
                     /\ pool' = [pool EXCEPT ![c] = "open"]
                     /\ Goto(p, "con_store", l)
                ELSE /\ pool' = [pool EXCEPT ![c] = "failed"]
                     /\ IF l.dials < 2
                        THEN Goto(p, "con_dial", l)
                        ELSE Finish(p, l, Err("Connection", "dial failed"))
                     /\ UNCHANGED slot
    /\ UNCHANGED <<registry, created, cinfo, cfor, inflight, poolM>>

\* connect: client.connect() on the new object.  MySqlClient::connect is a
\* placeholder that fails; PostgresClient::connect builds the pool, which
\* the backend accepts or refuses.
ConnectDial(p) ==
    /\ At(p, "con_dial")
    /\ LET c == loc[p].client
           l == [loc[p] EXCEPT !.dials = @ + 1] IN
       /\ poolM[c] = NoProc
       /\ IF cinfo[c].db_type = "MySQL"
          THEN /\ Finish(p, loc[p], Err("Unsupported", "MySQL support not yet implemented"))
               /\ UNCHANGED <<slot, pool>>
          ELSE \E dialed \in BOOLEAN :
                IF dialed
                THEN /\ slot' = [slot EXCEPT ![c] = TRUE]
                     /\ pool' = [pool EXCEPT ![c] = "open"]
                     /\ Goto(p, "con_store", l)
                ELSE /\ pool' = [pool EXCEPT ![c] = "failed"]
                     /\ Finish(p, l, Err("Connection", "dial failed"))
                     /\ UNCHANGED slot
    /\ UNCHANGED <<registry, created, cinfo, cfor, inflight, poolM>>

\* connect: takes clients.write() and stores the connected client.
ConnectStore(p) ==
    /\ At(p, "con_store")
    /\ cliW = NoProc
    /\ clients' = MapInsert(clients, loc[p].id, loc[p].client)
    /\ Finish(p, loc[p], OkClient(loc[p].client))
    /\ UNCHANGED <<connections, connW, cliW, objects>>

\* disconnect, under clients.write(): removes the live client and drops the
\* lock before tearing it down; with no live client it fails.
DisconnectBegin(p) ==
    /\ Start(p)
    /\ cliW = NoProc
    /\ \E id \in Ids :
        IF ContainsKey(clients, id)
        THEN /\ clients' = MapRemove(clients, id)
             /\ Goto(p, "disc", [Call("disconnect", id) EXCEPT !.client = clients[id]])
        ELSE /\ Finish(p, Call("disconnect", id), Err("NotFound", "Not connected to database"))
             /\ UNCHANGED clients
    /\ UNCHANGED <<connections, connW, cliW, objects>>

\* Where update, remove and disconnect go on after client.disconnect().
AfterDisconnect(p) ==
    CASE loc[p].op = "update" -> Goto(p, "upd_relock", loc[p])
      [] loc[p].op = "remove" -> Goto(p, "rem_relock", loc[p])
      [] OTHER -> Finish(p, loc[p], Ok)

(***************************************************************************)
(* The client object                                                       *)
(***************************************************************************)

\* client.disconnect(), called by update, remove and disconnect on the client
\* they took out of the map.  PostgresClient: locks the pool mutex, takes
\* the pool out of the field and starts closing it.
ClientDisconnect(p) ==
    /\ At(p, "disc")
    /\ LET c == loc[p].client IN
       /\ poolM[c] = NoProc
       /\ IF cinfo[c].db_type = "MySQL"
          THEN /\ Finish(p, loc[p], Err("Unsupported", "MySQL support not yet implemented"))
               /\ UNCHANGED <<slot, pool, poolM>>
          ELSE IF slot[c]
          THEN /\ slot' = [slot EXCEPT ![c] = FALSE]
               /\ pool' = [pool EXCEPT ![c] = "closed"]
               /\ poolM' = [poolM EXCEPT ![c] = p]
               /\ Goto(p, "closing", loc[p])
          ELSE /\ AfterDisconnect(p)
               /\ UNCHANGED <<slot, pool, poolM>>
    /\ UNCHANGED <<registry, created, cinfo, cfor, inflight>>

\* pool.close().await returns once every checked-out connection is back;
\* the pool mutex is released when disconnect returns.
PoolClosed(p) ==
    /\ At(p, "closing")
    /\ LET c == loc[p].client IN
       /\ inflight[c] = 0
       /\ poolM' = [poolM EXCEPT ![c] = NoProc]
    /\ AfterDisconnect(p)
    /\ UNCHANGED <<registry, created, cinfo, cfor, slot, pool, inflight>>

\* A faulty execute: with no live client but a stored configuration the
\* call connects a client by itself and goes on.
ExecuteBeginAutoConnect(p) ==
    /\ Start(p)
    /\ cliW = NoProc
    /\ \E id \in Ids, op \in {"execute_query", "execute_queries"}, n \in 0..MaxStmts :
        /\ op = "execute_query" => n = 1
        /\ IF ContainsKey(clients, id)
           THEN /\ LET l == [Call(op, id) EXCEPT !.client = clients[id], !.n = n] IN
                   IF n = 0 THEN Finish(p, l, Ok) ELSE Goto(p, "exe_pool", l)
                /\ UNCHANGED <<clients, objects>>
           ELSE IF ContainsCfg(connections, id) /\ created < MaxClients
           THEN LET c == created + 1
                    l == [Call(op, id) EXCEPT !.client = c, !.n = n] IN
                /\ created' = c
                /\ cinfo' = [cinfo EXCEPT ![c] = connections[id]]
                /\ cfor' = [cfor EXCEPT ![c] = id]
                /\ slot' = [slot EXCEPT ![c] = TRUE]
                /\ pool' = [pool EXCEPT ![c] = "open"]
                /\ clients' = MapInsert(clients, id, c)
                /\ IF n = 0 THEN Finish(p, l, Ok) ELSE Goto(p, "exe_pool", l)
                /\ UNCHANGED <<inflight, poolM>>
           ELSE /\ Finish(p, Call(op, id), Err("NotFound", "Not connected to database"))
                /\ UNCHANGED <<clients, objects>>
    /\ UNCHANGED <<connections, connW, cliW>>

\* execute_query / execute_queries: get_client under clients.read().  The
\* script of execute_queries holds n statements.
ExecuteBegin(p) ==
    /\ Start(p)
    /\ cliW = NoProc
    /\ \E id \in Ids, op \in {"execute_query", "execute_queries"}, n \in 0..MaxStmts :
        /\ op = "execute_query" => n = 1
        /\ IF ~ContainsKey(clients, id)
           THEN Finish(p, Call(op, id), Err("NotFound", "Not connected to database"))
           ELSE LET l == [Call(op, id) EXCEPT !.client = clients[id], !.n = n] IN
                IF n = 0 THEN Finish(p, l, Ok) ELSE Goto(p, "exe_pool", l)
    /\ UNCHANGED <<registry, objects>>

\* client.execute_query: get_pool clones the pool out of the field under
\* the pool mutex, or fails when the field is empty.
GetPool(p) ==
    /\ At(p, "exe_pool")
    /\ LET c == loc[p].client IN
       /\ poolM[c] = NoProc
       /\ IF slot[c]
          THEN Goto(p, "exe_send", loc[p])
          ELSE Finish(p, loc[p], Err("Connection", "Not connected to database"))
    /\ UNCHANGED <<registry, objects>>

\* client.execute_query: the statement is handed to the cloned pool.  A
\* closed pool refuses it (sqlx PoolClosed), and the code wraps every
\* failure of the call as DbError::Query.
SendStatement(p) ==
    /\ At(p, "exe_send")
    /\ LET c == loc[p].client IN
       IF pool[c] = "open"
       THEN /\ inflight' = [inflight EXCEPT ![c] = @ + 1]
            /\ Goto(p, "exe_run", loc[p])
       ELSE /\ Finish(p, loc[p], Err("Query", "PoolClosed"))
            /\ UNCHANGED inflight
    /\ UNCHANGED <<registry, created, cinfo, cfor, slot, pool, poolM>>

\* client.execute_query: the backend answers the statement, the connection
\* goes back to the pool; execute_queries stops at the first failure.
StatementDone(p) ==
    /\ At(p, "exe_run")
    /\ LET c == loc[p].client IN
       /\ inflight' = [inflight EXCEPT ![c] = @ - 1]
       /\ \E accepted \in BOOLEAN :
            IF ~accepted
            THEN Finish(p, loc[p], Err("Query", "Backend"))
            ELSE IF loc[p].n > 1
            THEN Goto(p, "exe_pool", [loc[p] EXCEPT !.n = @ - 1])
            ELSE Finish(p, loc[p], Ok)
    /\ UNCHANGED <<registry, created, cinfo, cfor, slot, pool, poolM>>

\* The caller takes the result; it may call again.
Return(p) ==
    /\ At(p, "done")
    /\ pc' = [pc EXCEPT ![p] = "idle"]
    /\ loc' = [loc EXCEPT ![p] = NoLoc]
    /\ ret' = [ret EXCEPT ![p] = NoRet]
    /\ UNCHANGED <<registry, objects>>

Next ==
    \E p \in Procs :
        \/ AddConnection(p)
        \/ LoadBegin(p)
        \/ LoadAdd(p)
        \/ GetConnection(p)
        \/ ListConnections(p)
        \/ IsConnected(p)
        \/ UpdateBegin(p)
        \/ UpdateClients(p)
        \/ UpdateRelock(p)
        \/ RemoveBegin(p)
        \/ RemoveRelock(p)
        \/ RemoveConns(p)
        \/ ConnectBegin(p)
        \/ ConnectGet(p)
        \/ ConnectDial(p)
        \/ ConnectStore(p)
        \/ DisconnectBegin(p)
        \/ ClientDisconnect(p)
        \/ PoolClosed(p)
        \/ ExecuteBegin(p)
        \/ GetPool(p)
        \/ SendStatement(p)
        \/ StatementDone(p)
        \/ Return(p)

Spec == Init /\ [][Next]_vars

\* The manager under callers that add and update configurations, connect
\* and test connections.
ProbeNext ==
    \E p \in Procs :
        \/ AddConnection(p)
        \/ TestConnection(p)
        \/ ClientTestConnection(p)
        \/ TestDial(p)
        \/ TestQuery(p)
        \/ UpdateBegin(p)
        \/ UpdateClients(p)
        \/ UpdateRelock(p)
        \/ ConnectBegin(p)
        \/ ConnectGet(p)
        \/ ConnectDial(p)
        \/ ConnectStore(p)
        \/ ClientDisconnect(p)
        \/ PoolClosed(p)
        \/ Return(p)

ProbeSpec == Init /\ [][ProbeNext]_vars

TypeOK ==
    /\ connections \in [Ids -> Cfgs \cup {NoCfg}]
    /\ clients \in [Ids -> ClientIds \cup {NoClient}]
    /\ connW \in Procs \cup {NoProc}
    /\ cliW \in Procs \cup {NoProc}
    /\ created \in 0..MaxClients
    /\ \A c \in ClientIds :
        /\ pool[c] \in {"unbuilt", "open", "closed", "failed"}
        /\ inflight[c] \in 0..Cardinality(Procs)
        /\ slot[c] => pool[c] = "open"
        /\ c > created => cinfo[c] = NoCfg /\ pool[c] = "unbuilt"

(***************************************************************************)
(* split_sql_statements: one left-to-right scan of the script.  The three  *)
(* copies (db/utils/parsing.rs, db/utils/strings.rs, utils/strings.rs)     *)
(* have the same loop; the two in strings.rs end with the unclosed checks. *)
(***************************************************************************)

\* The characters the scan tells apart, and "a" for every other one.
Chars == {"'", "\"", "-", "/", "*", "\n", ";", "\\", " ", "a"}
QuoteChars == {"'", "\"", ";"}

\* char::is_whitespace, as str::trim uses it
Whitespace == {" ", "\n"}

\* Every string of at most n characters of A.
Strings(A, n) == UNION {[1..k -> A] : k \in 0..n}

RECURSIVE TrimStart(_)
TrimStart(s) ==
    IF s # <<>> /\ Head(s) \in Whitespace THEN TrimStart(Tail(s)) ELSE s

RECURSIVE TrimEnd(_)
TrimEnd(s) ==
    IF s # <<>> /\ s[Len(s)] \in Whitespace
    THEN TrimEnd(SubSeq(s, 1, Len(s) - 1))
    ELSE s

\* str::trim
Trim(s) == TrimEnd(TrimStart(s))

\* Handle string literals
HandleString(s, c) ==
    IF /\ c = "'" /\ ~s.in_comment /\ ~s.in_block_comment
       /\ (~s.in_string \/ s.previous_char # "\\")
    THEN [s EXCEPT !.in_string = ~@]
    ELSE s

\* Handle quoted identifiers
HandleIdentifier(s, c) ==
    IF /\ c = "\"" /\ ~s.in_string /\ ~s.in_comment /\ ~s.in_block_comment
       /\ (~s.in_identifier \/ s.previous_char # "\\")
    THEN [s EXCEPT !.in_identifier = ~@]
    ELSE s

\* Handle line comments
HandleLineComment(s, c) ==
    IF /\ c = "-" /\ s.previous_char = "-"
       /\ ~s.in_string /\ ~s.in_identifier /\ ~s.in_block_comment
    THEN [s EXCEPT !.in_comment = TRUE]
    ELSE s

\* Handle block comments: the opening test, then the closing test
HandleBlockComment(s, c) ==
    LET opened ==
            IF /\ c = "*" /\ s.previous_char = "/"
               /\ ~s.in_string /\ ~s.in_identifier /\ ~s.in_comment
            THEN [s EXCEPT !.in_block_comment = TRUE]
            ELSE s
    IN  IF c = "/" /\ opened.previous_char = "*" /\ opened.in_block_comment
        THEN [opened EXCEPT !.in_block_comment = FALSE]
        ELSE opened

\* End of line resets line comments
HandleEndOfLine(s, c) ==
    IF c = "\n" /\ s.in_comment THEN [s EXCEPT !.in_comment = FALSE] ELSE s

\* Add character to current statement
PushChar(s, c) ==
    IF ~s.in_comment /\ ~s.in_block_comment
    THEN [s EXCEPT !.current_statement = Append(@, c)]
    ELSE s

\* The trimmed buffer goes to the list unless it is empty.
PushStatement(s) ==
    LET trimmed == Trim(s.current_statement) IN
    IF trimmed # <<>>
    THEN [s EXCEPT !.statements = Append(@, trimmed)]
    ELSE s

\* Handle statement terminator
HandleTerminator(s, c) ==
    IF /\ c = ";" /\ ~s.in_string /\ ~s.in_identifier
       /\ ~s.in_comment /\ ~s.in_block_comment
    THEN [PushStatement(s) EXCEPT !.current_statement = <<>>]
    ELSE s

\* The body of the loop for one character c.
ScanChar(s, c) ==
    LET s1 == HandleString(s, c)
        s2 == HandleIdentifier(s1, c)
        s3 == HandleLineComment(s2, c)
        s4 == HandleBlockComment(s3, c)
        s5 == HandleEndOfLine(s4, c)
        s6 == PushChar(s5, c)
        s7 == HandleTerminator(s6, c)
    IN  [s7 EXCEPT !.previous_char = c]

\* A faulty end: what is left in the buffer is dropped.
EndOfInputDropsTrailing(s) == s

\* After the loop: add the last statement if it's not empty.
EndOfInput(s) == PushStatement(s)

RECURSIVE ScanFrom(_, _)
ScanFrom(s, text) ==
    IF text = <<>> THEN s ELSE ScanFrom(ScanChar(s, Head(text)), Tail(text))

\* db/utils/parsing.rs: the list, whatever mode the scan ended in.
split_sql_statements(text) == EndOfInput(ScanFrom(NoScan, text)).statements

\* db/utils/strings.rs, utils/strings.rs: the unclosed checks on the locals
\* the scan ended with, in the order of the code.
SplitResult(s) ==
    IF s.in_string
    THEN [kind |-> "Parsing", msg |-> "Unclosed string literal", statements |-> <<>>]
    ELSE IF s.in_identifier
    THEN [kind |-> "Parsing", msg |-> "Unclosed quoted identifier", statements |-> <<>>]
    ELSE IF s.in_block_comment
    THEN [kind |-> "Parsing", msg |-> "Unclosed block comment", statements |-> <<>>]
    ELSE [kind |-> "Ok", msg |-> "none", statements |-> s.statements]

(***************************************************************************)
(* PostgresClient::execute_queries on a connected client: the script is    *)
(* split, then each statement goes through execute_query in turn.          *)
(***************************************************************************)

\* "SELECT ';' ; SELECT 1;"
ScriptQuotedTerminator ==
    <<"a", " ", "'", ";", "'", " ", ";", " ", "a", " ", "a", ";">>
\* "SELECT 1; -- comment\nSELECT 2;"
ScriptLineComment ==
    <<"a", " ", "a", ";", " ", "-", "-", " ", "a", "\n", "a", " ", "a", ";">>
\* "SELECT 1; /* c */ SELECT 2;"
ScriptBlockComment ==
    <<"a", " ", "a", ";", " ", "/", "*", " ", "a", " ", "*", "/", " ", "a", " ", "a", ";">>
\* "SELECT 'unterminated"
ScriptUnterminated == <<"a", " ", "'", "a">>
\* "SELECT 1; ; SELECT 2;"
ScriptBlankStatement ==
    <<"a", " ", "a", ";", " ", ";", " ", "a", " ", "a", ";">>
\* "SELECT 1;;SELECT 2;"
ScriptEmptyStatement ==
    <<"a", " ", "a", ";", ";", "a", " ", "a", ";">>

\* The scripts a behaviour may execute.
Scripts ==
    Strings(Chars, MaxLen) \cup Strings(QuoteChars, MaxQuoteLen)
        \cup {ScriptQuotedTerminator, ScriptLineComment, ScriptBlockComment,
              ScriptUnterminated, ScriptBlankStatement, ScriptEmptyStatement}

\* What execute_query returns for one statement: the result, or the error
\* of get_pool, of the backend, or of the row conversion.
Outcomes == {"Ok", "Connection", "Query", "Serialization"}

\* execute_queries is called with a script.
ScriptInit ==
    /\ NoRegistry
    /\ NoTransactions
    /\ NoParts
    /\ sql \in Scripts
    /\ pos = 0
    /\ scan = NoScan
    /\ run = [NoRun EXCEPT !.phase = "split"]

\* split_sql_statements: the loop takes the next character.
SplitChar ==
    /\ run.phase = "split"
    /\ pos < Len(sql)
    /\ scan' = ScanChar(scan, sql[pos + 1])
    /\ pos' = pos + 1
    /\ UNCHANGED <<sql, run, besideScript>>

\* split_sql_statements: the loop is over, the list is returned.
SplitEnd ==
    /\ run.phase = "split"
    /\ pos = Len(sql)
    /\ scan' = EndOfInput(scan)
    /\ run' = [run EXCEPT !.phase = "loop"]
    /\ UNCHANGED <<sql, pos, besideScript>>

\* execute_queries: the loop takes statement i; a blank one is skipped,
\* another is handed to execute_query; after the last the list is returned.
NextStatement ==
    /\ run.phase = "loop"
    /\ IF run.i = Len(scan.statements)
       THEN run' = [run EXCEPT !.phase = "returned", !.ret = "Ok"]
       ELSE LET statement == scan.statements[run.i + 1] IN
            IF Trim(statement) = <<>>
            THEN run' = [run EXCEPT !.i = @ + 1]
            ELSE run' = [run EXCEPT !.phase = "await",
                                    !.sent = Append(@, statement)]
    /\ UNCHANGED <<sql, pos, scan, besideScript>>

\* A faulty return: an error ends the call with the results collected so far.
StatementReturnsPartial ==
    /\ run.phase = "await"
    /\ \E outcome \in Outcomes :
        IF outcome = "Ok"
        THEN run' = [run EXCEPT
                        !.phase = "loop",
                        !.results = Append(@, [sql |-> scan.statements[run.i + 1],
                                               result_index |-> run.i]),
                        !.i = @ + 1]
        ELSE run' = [run EXCEPT !.phase = "returned", !.ret = outcome]
    /\ UNCHANGED <<sql, pos, scan, besideScript>>

\* A faulty return: results are numbered from one.
StatementReturnsOneBased ==
    /\ run.phase = "await"
    /\ \E outcome \in Outcomes :
        IF outcome = "Ok"
        THEN run' = [run EXCEPT
                        !.phase = "loop",
                        !.results = Append(@, [sql |-> scan.statements[run.i + 1],
                                               result_index |-> run.i + 1]),
                        !.i = @ + 1]
        ELSE run' = [run EXCEPT !.phase = "returned", !.ret = outcome,
                                !.results = <<>>]
    /\ UNCHANGED <<sql, pos, scan, besideScript>>

\* execute_queries: execute_query returns; its result gets the index of the
\* statement and joins the list, its error ends the call.
StatementReturns ==
    /\ run.phase = "await"
    /\ \E outcome \in Outcomes :
        IF outcome = "Ok"
        THEN run' = [run EXCEPT
                        !.phase = "loop",
                        !.results = Append(@, [sql |-> scan.statements[run.i + 1],
                                               result_index |-> run.i]),
                        !.i = @ + 1]
        ELSE run' = [run EXCEPT !.phase = "returned", !.ret = outcome,
                                !.results = <<>>]
    /\ UNCHANGED <<sql, pos, scan, besideScript>>

ScriptNext ==
    \/ SplitChar
    \/ SplitEnd
    \/ NextStatement
    \/ StatementReturns

ScriptSpec == ScriptInit /\ [][ScriptNext]_vars

(***************************************************************************)
(* PostgresTransaction: the handles begin_transaction returns, shared by   *)
(* concurrent callers.  A call is cut where it awaits the mutex of the tx  *)
(* field and where it awaits the backend.                                  *)
(***************************************************************************)

TxOps == {"execute_query", "commit", "rollback"}
Finalizers == {"commit", "rollback"}

\* What the backend may answer; the code turns a failure of a statement
\* into DbError::Query (or Serialization for a row), one of commit or
\* rollback into DbError::Transaction.
TxOutcomes(op) ==
    IF op = "execute_query"
    THEN {"Ok", "Query", "Serialization"}
    ELSE {"Ok", "Transaction"}

\* begin_transaction has returned every handle: Mutex::new(Some(tx)).
TxInit ==
    /\ NoRegistry
    /\ NoScript
    /\ NoParts
    /\ tx = [h \in Handles |-> TRUE]
    /\ txM = [h \in Handles |-> NoProc]
    /\ backend = [h \in Handles |-> <<>>]
    /\ tcalls = 0
    /\ tcall = [c \in Callers |-> NoTCall]

\* A caller calls execute_query, commit or rollback on a handle.
TxCall(c) ==
    /\ tcall[c].pc = "idle"
    /\ tcalls < MaxTxCalls
    /\ tcalls' = tcalls + 1
    /\ \E h \in Handles, op \in TxOps :
        tcall' = [tcall EXCEPT ![c] = [NoTCall EXCEPT !.pc = "lock", !.h = h, !.op = op]]
    /\ UNCHANGED <<tx, txM, backend, besideTransactions>>

\* A faulty lock step: commit and rollback leave the field as it is.
TxLockKeepsHandle(c) ==
    LET h == tcall[c].h
        op == tcall[c].op
    IN  /\ tcall[c].pc = "lock"
        /\ txM[h] = NoProc
        /\ IF ~tx[h]
           THEN /\ tcall' = [tcall EXCEPT ![c].pc = "done", ![c].ret = "Transaction"]
                /\ UNCHANGED <<tx, txM, backend>>
           ELSE /\ txM' = [txM EXCEPT ![h] = c]
                /\ backend' = [backend EXCEPT ![h] = Append(@, [op |-> op, outcome |-> "pending"])]
                /\ tcall' = [tcall EXCEPT ![c].pc = "run", ![c].k = Len(backend[h]) + 1]
                /\ UNCHANGED tx
        /\ UNCHANGED <<tcalls, besideTransactions>>

\* A faulty lock step: the mutex is not waited for.
TxLockUnserialized(c) ==
    LET h == tcall[c].h
        op == tcall[c].op
    IN  /\ tcall[c].pc = "lock"
        /\ IF ~tx[h]
           THEN /\ tcall' = [tcall EXCEPT ![c].pc = "done", ![c].ret = "Transaction"]
                /\ UNCHANGED <<tx, txM, backend>>
           ELSE /\ txM' = [txM EXCEPT ![h] = c]
                /\ tx' = [tx EXCEPT ![h] = IF op \in Finalizers THEN FALSE ELSE @]
                /\ backend' = [backend EXCEPT ![h] = Append(@, [op |-> op, outcome |-> "pending"])]
                /\ tcall' = [tcall EXCEPT ![c].pc = "run", ![c].k = Len(backend[h]) + 1]
        /\ UNCHANGED <<tcalls, besideTransactions>>

\* The call gets the mutex of the tx field.  An empty field ends it with
\* DbError::Transaction.  Otherwise execute_query borrows the transaction
\* (as_mut), commit and rollback take it out of the field (take), and the
\* backend is asked; the guard lives until the call returns.
TxLock(c) ==
    LET h == tcall[c].h
        op == tcall[c].op
    IN  /\ tcall[c].pc = "lock"
        /\ txM[h] = NoProc
        /\ IF ~tx[h]
           THEN /\ tcall' = [tcall EXCEPT ![c].pc = "done", ![c].ret = "Transaction"]
                /\ UNCHANGED <<tx, txM, backend>>
           ELSE /\ txM' = [txM EXCEPT ![h] = c]
                /\ tx' = [tx EXCEPT ![h] = IF op \in Finalizers THEN FALSE ELSE @]
                /\ backend' = [backend EXCEPT ![h] = Append(@, [op |-> op, outcome |-> "pending"])]
                /\ tcall' = [tcall EXCEPT ![c].pc = "run", ![c].k = Len(backend[h]) + 1]
        /\ UNCHANGED <<tcalls, besideTransactions>>

\* The backend answers; the call returns and its guard is dropped.
TxAnswer(c) ==
    LET h == tcall[c].h IN
    /\ tcall[c].pc = "run"
    /\ \E outcome \in TxOutcomes(tcall[c].op) :
        /\ backend' = [backend EXCEPT ![h][tcall[c].k].outcome = outcome]
        /\ tcall' = [tcall EXCEPT ![c].pc = "done", ![c].ret = outcome]
    /\ txM' = [txM EXCEPT ![h] = NoProc]
    /\ UNCHANGED <<tx, tcalls, besideTransactions>>

\* The caller takes the result; it may call again.
TxReturn(c) ==
    /\ tcall[c].pc = "done"
    /\ tcall' = [tcall EXCEPT ![c] = NoTCall]
    /\ UNCHANGED <<tx, txM, backend, tcalls, besideTransactions>>

TxNext ==
    \E c \in Callers :
        \/ TxCall(c)
        \/ TxLock(c)
        \/ TxAnswer(c)
        \/ TxReturn(c)

TxSpec == TxInit /\ [][TxNext]_vars

(***************************************************************************)
(* execute_query on one statement, as PostgresClient has it in             *)
(* db/clients/postgres.rs and in db/postgres/mod.rs                        *)
(***************************************************************************)

Impls == {"clients", "postgres"}

\* The letters of the statements below, and char::to_uppercase on them.
LowerCase == <<"a", "c", "d", "e", "l", "p", "s", "t", "u">>
UpperCase == <<"A", "C", "D", "E", "L", "P", "S", "T", "U">>
Letters == {LowerCase[i] : i \in DOMAIN LowerCase}
               \cup {UpperCase[i] : i \in DOMAIN UpperCase}

to_uppercase_char(c) ==
    IF \E i \in DOMAIN LowerCase : LowerCase[i] = c
    THEN UpperCase[CHOOSE i \in DOMAIN LowerCase : LowerCase[i] = c]
    ELSE c

\* str::to_uppercase, str::starts_with
to_uppercase(s) == [i \in DOMAIN s |-> to_uppercase_char(s[i])]
starts_with(s, prefix) ==
    /\ Len(s) >= Len(prefix)
    /\ SubSeq(s, 1, Len(prefix)) = prefix

SELECT == <<"S", "E", "L", "E", "C", "T">>
UPDATE == <<"U", "P", "D", "A", "T", "E">>

\* The statements handed to execute_query: leading whitespace, a first
\* word, and the rest of the statement, for which x stands.
LeadingSpace == {<<>>, <<" ">>, <<"\n", " ">>}
FirstWords == {SELECT,
               <<"s", "e", "l", "e", "c", "t">>,
               <<"S", "e", "l", "e", "c", "t">>,
               <<"S", "E", "L", "E", "C">>,
               <<"S", "E", "L", "E", "C", "T", "S">>,
               UPDATE,
               <<"u", "p", "d", "a", "t", "e">>,
               <<"-", "-", "\n", "S", "E", "L", "E", "C", "T">>}
Rests == {<<>>, <<" ", "x">>}
Statements == {l \o w \o r : l \in LeadingSpace, w \in FirstWords, r \in Rests}

\* The column lists a statement's rows can have; a statement returns or
\* changes at most MaxRows rows.
ColumnLists == {<<>>, <<"a">>, <<"a", "b">>}

\* The backend. It takes the first word of a statement, in either case, as
\* the statement's kind and rejects a statement whose first word is none;
\* a line comment before the first word is skipped.
RECURSIVE LetterRun(_)
LetterRun(s) ==
    IF s # <<>> /\ Head(s) \in Letters
    THEN <<Head(s)>> \o LetterRun(Tail(s))
    ELSE <<>>

RECURSIVE SkipComment(_)
SkipComment(s) ==
    IF starts_with(s, <<"-", "-">>)
    THEN IF \E i \in DOMAIN s : s[i] = "\n"
         THEN SkipComment(TrimStart(SubSeq(s, 1 + CHOOSE i \in DOMAIN s :
                    s[i] = "\n" /\ \A j \in 1..(i - 1) : s[j] # "\n", Len(s))))
         ELSE <<>>
    ELSE s

Command(s) == to_uppercase(LetterRun(SkipComment(TrimStart(s))))
Parses(s) == Command(s) \in {SELECT, UPDATE}

\* The rows the backend returns: n rows over the columns cols.
RowsOf(cols, n) == [i \in 1..n |-> [c \in {cols[j] : j \in DOMAIN cols} |-> "v"]]

\* Option: None, Some(x)
None == <<>>
Some(x) == <<x>>

\* create_query_result
create_query_result(text, columns, rows, rows_affected, result_index) ==
    [kind |-> "Ok", query |-> text, columns |-> columns, rows |-> rows,
     rows_affected |-> rows_affected, result_index |-> result_index]

QueryErr(kind) ==
    [kind |-> kind, query |-> <<>>, columns |-> <<>>, rows |-> <<>>,
     rows_affected |-> None, result_index |-> 0]

NoResult == QueryErr("none")

\* One call of execute_query on a connected client: the statement, the
\* columns its rows have, the requests the backend got, the rows and the
\* count the driver reported, and what the call returned.
QueryInit ==
    /\ NoRegistry
    /\ NoScript
    /\ NoTransactions
    /\ conv = NoConv
    /\ intro = NoIntro
    /\ build = NoBuild
    /\ ser = NoSer
    /\ app = NoApp
    /\ pgc = NoClientCalls
    /\ \E impl \in Impls, text \in Statements, cols \in ColumnLists :
           query = [phase |-> "called", impl |-> impl, sql |-> text,
                    cols |-> cols, asked |-> <<>>, fetched |-> <<>>,
                    described |-> <<>>, affected |-> None, ret |-> NoResult]

\* The test execute_query makes of the statement.
IsSelect(text) == starts_with(to_uppercase(TrimStart(text)), SELECT)

Asked(req) == [query EXCEPT !.asked = Append(@, req)]

\* clients/postgres.rs: a statement that begins with SELECT goes to
\* fetch_all; with rows, the columns are those of the first row.
QueryFetchAll ==
    /\ query.phase = "called"
    /\ query.impl = "clients"
    /\ IsSelect(query.sql)
    /\ \/ /\ Parses(query.sql)
          /\ \E n \in 0..MaxRows :
               LET rows == RowsOf(query.cols, n) IN
               query' = IF n = 0
                        THEN [Asked("fetch_all") EXCEPT !.phase = "describe"]
                        ELSE [Asked("fetch_all") EXCEPT
                                 !.phase = "returned",
                                 !.fetched = rows,
                                 !.ret = create_query_result(query.sql,
                                             query.cols, rows, None, 0)]
       \/ query' = [Asked("fetch_all") EXCEPT !.phase = "returned",
                                                !.ret = QueryErr("Query")]
    /\ UNCHANGED besideQuery

\* clients/postgres.rs: no row came back, the statement is described.
QueryDescribe ==
    /\ query.phase = "describe"
    /\ \/ query' = [Asked("describe") EXCEPT
                       !.phase = "returned",
                       !.described = query.cols,
                       !.ret = create_query_result(query.sql,
                                   query.cols,
                                   <<>>, None, 0)]
       \/ query' = [Asked("describe") EXCEPT !.phase = "returned",
                                               !.ret = QueryErr("Query")]
    /\ UNCHANGED besideQuery

\* clients/postgres.rs: any other statement goes to execute, and the
\* result carries the count the driver reports.
QueryExecute ==
    /\ query.phase = "called"
    /\ query.impl = "clients"
    /\ ~IsSelect(query.sql)
    /\ \/ /\ Parses(query.sql)
          /\ \E n \in 0..MaxRows :
               query' = [Asked("execute") EXCEPT
                            !.phase = "returned",
                            !.affected = Some(n),
                            !.ret = create_query_result(query.sql, <<>>, <<>>,
                                                        Some(n), 0)]
       \/ query' = [Asked("execute") EXCEPT !.phase = "returned",
                                              !.ret = QueryErr("Query")]
    /\ UNCHANGED besideQuery

\* db/postgres/mod.rs: every statement goes to fetch_all; the columns are
\* those of the first row, none without a row, and rows_affected is None.
\* A statement that returns no rows is run and gives an empty list.
LegacyExecuteQuery ==
    /\ query.phase = "called"
    /\ query.impl = "postgres"
    /\ \/ /\ Parses(query.sql)
          /\ \E n \in 0..MaxRows :
               LET rows == RowsOf(query.cols, n) IN
               /\ Command(query.sql) # SELECT => n = 0
               /\ query' = [Asked("fetch_all") EXCEPT
                               !.phase = "returned",
                               !.fetched = rows,
                               !.ret = create_query_result(query.sql,
                                           IF n = 0 THEN <<>> ELSE query.cols,
                                           rows, None, 0)]
       \/ query' = [Asked("fetch_all") EXCEPT !.phase = "returned",
                                                !.ret = QueryErr("Query")]
    /\ UNCHANGED besideQuery

QueryNext ==
    \/ QueryFetchAll
    \/ QueryDescribe
    \/ QueryExecute
    \/ LegacyExecuteQuery

QuerySpec == QueryInit /\ [][QueryNext]_vars

(***************************************************************************)
(* ConnectionInfo::to_connection_string and parse_connection_string        *)
(***************************************************************************)

\* Text is a sequence of characters. The schemes and the fixed text of the
\* two functions:
postgres == <<"p", "o", "s", "t", "g", "r", "e", "s">>
postgresql == postgres \o <<"q", "l">>
mysql == <<"m", "y", "s", "q", "l">>
mariadb == <<"m", "a", "r", "i", "a", "d", "b">>
sqlite == <<"s", "q", "l", "i", "t", "e">>
localhost == <<"l", "o", "c", "a", "l", "h", "o", "s", "t">>

DigitChars == <<"0", "1", "2", "3", "4", "5", "6", "7", "8", "9">>

\* A u16 as format! writes it, and as Url::parse reads it.
RECURSIVE ToDigits(_)
ToDigits(n) ==
    IF n < 10 THEN <<DigitChars[n + 1]>>
    ELSE ToDigits(n \div 10) \o <<DigitChars[(n % 10) + 1]>>

RECURSIVE FromDigits(_)
FromDigits(s) ==
    IF s = <<>> THEN 0
    ELSE 10 * FromDigits(SubSeq(s, 1, Len(s) - 1))
            + (CHOOSE d \in 0..9 : DigitChars[d + 1] = s[Len(s)])

\* The first and the last place of character c in s, 0 when it has none.
IndexOf(s, c) ==
    IF \E i \in DOMAIN s : s[i] = c
    THEN CHOOSE i \in DOMAIN s : s[i] = c /\ \A j \in 1..(i - 1) : s[j] # c
    ELSE 0
LastIndexOf(s, c) ==
    IF \E i \in DOMAIN s : s[i] = c
    THEN CHOOSE i \in DOMAIN s : s[i] = c /\ \A j \in (i + 1)..Len(s) : s[j] # c
    ELSE 0

From(s, i) == SubSeq(s, i, Len(s))
Upto(s, i) == SubSeq(s, 1, i)

\* The configurations: id and name, the backend kind, and the discrete
\* fields, each an Option. Field values are letters; no value holds a
\* character that a URL reserves.
ConvIds == {<<"a">>, <<"b">>}
ConvNames == {<<"n">>, <<"d", " ", "o", "n", " ", "h">>}
ConvTypes == {"Postgres", "MySQL", "SQLite"}
ConvStrings == {None, Some(postgresql \o <<":", "/", "/", "h", "/", "d", "?", "k", "=", "v">>)}
ConvHosts == {None, Some(<<"h">>)}
ConvPorts == {None, Some(5432), Some(80)}
ConvDatabases == {None, Some(<<"d">>)}
ConvUsers == {None, Some(<<"u">>)}
ConvPasswords == {None, Some(<<"p", "w">>)}
ConvOptions == {None, Some({<<<<"k">>, <<"v">>>>})}

ConnectionInfos ==
    [id : ConvIds, name : ConvNames, db_type : ConvTypes,
     connection_string : ConvStrings, host : ConvHosts, port : ConvPorts,
     database : ConvDatabases, username : ConvUsers,
     password : ConvPasswords, options : ConvOptions]

\* Option::unwrap_or
UnwrapOr(o, d) == IF o = None THEN d ELSE o[1]

\* ConnectionInfo::default_port
default_port(db_type) ==
    CASE db_type = "Postgres" -> 5432
      [] db_type = "MySQL" -> 3306
      [] db_type = "SQLite" -> 0

ConvOk(v) == [kind |-> "Ok", value |-> v]
ConvErr(kind) == [kind |-> kind, value |-> <<>>]

\* ConnectionInfo::to_connection_string
to_connection_string(c) ==
    IF c.connection_string # None THEN ConvOk(c.connection_string[1])
    ELSE IF c.db_type = "SQLite"
    THEN IF c.host # None THEN ConvOk(sqlite \o <<":">> \o c.host[1])
         ELSE IF c.database # None THEN ConvOk(sqlite \o <<":">> \o c.database[1])
         ELSE ConvErr("path required")
    ELSE IF c.host = None THEN ConvErr("host required")
    ELSE IF c.database = None THEN ConvErr("database required")
    ELSE IF c.username = None THEN ConvErr("username required")
    ELSE ConvOk((IF c.db_type = "Postgres" THEN postgres ELSE mysql)
                  \o <<":", "/", "/">> \o c.username[1] \o <<":">>
                  \o UnwrapOr(c.password, <<>>) \o <<"@">> \o c.host[1]
                  \o <<":">> \o ToDigits(UnwrapOr(c.port, default_port(c.db_type)))
                  \o <<"/">> \o c.database[1])

\* The key=value pairs of a query string, as Url::query_pairs gives them.
RECURSIVE QueryPairs(_)
QueryPairs(q) ==
    IF q = <<>> THEN {}
    ELSE LET amp == IndexOf(q, "&")
             one == IF amp = 0 THEN q ELSE Upto(q, amp - 1)
             more == IF amp = 0 THEN <<>> ELSE From(q, amp + 1)
             eq == IndexOf(one, "=")
         IN  (IF one = <<>> THEN {}
              ELSE IF eq = 0 THEN {<<one, <<>>>>}
              ELSE {<<Upto(one, eq - 1), From(one, eq + 1)>>})
             \cup QueryPairs(more)

\* Url::parse on text without reserved characters inside its parts: the
\* scheme up to the first colon; after //, the authority up to the next /,
\* with the user information before its last @ and the port after the last
\* colon of the rest; then the path and, after ?, the query.
UrlParse(s) ==
    LET colon == IndexOf(s, ":")
        rest == From(s, colon + 1)
    IN  IF colon <= 1 THEN ConvErr("Config")
        ELSE IF starts_with(rest, <<"/", "/">>)
        THEN LET after == From(rest, 3)
                 mark == IndexOf(after, "?")
                 hier == IF mark = 0 THEN after ELSE Upto(after, mark - 1)
                 slash == IndexOf(hier, "/")
                 authority == IF slash = 0 THEN hier ELSE Upto(hier, slash - 1)
                 at == LastIndexOf(authority, "@")
                 userinfo == Upto(authority, at - 1)
                 hostport == From(authority, at + 1)
                 ucolon == IndexOf(userinfo, ":")
                 hcolon == LastIndexOf(hostport, ":")
                 host == IF hcolon = 0 THEN hostport ELSE Upto(hostport, hcolon - 1)
                 digits == IF hcolon = 0 THEN <<>> ELSE From(hostport, hcolon + 1)
             IN  IF host = <<>> THEN ConvErr("Config")
                 ELSE ConvOk([scheme |-> Upto(s, colon - 1),
                              host |-> Some(host),
                              port |-> IF digits = <<>> THEN None
                                       ELSE Some(FromDigits(digits)),
                              path |-> IF slash = 0 THEN <<>> ELSE From(hier, slash),
                              username |-> IF ucolon = 0 THEN userinfo
                                           ELSE Upto(userinfo, ucolon - 1),
                              password |-> IF ucolon = 0 \/ ucolon = Len(userinfo)
                                           THEN None
                                           ELSE Some(From(userinfo, ucolon + 1)),
                              query |-> IF mark = 0 THEN <<>> ELSE From(after, mark + 1)])
        ELSE ConvOk([scheme |-> Upto(s, colon - 1), host |-> None, port |-> None,
                     path |-> rest, username |-> <<>>, password |-> None,
                     query |-> <<>>])

\* str::trim_start_matches('/')
RECURSIVE TrimSlashes(_)
TrimSlashes(s) == IF s # <<>> /\ Head(s) = "/" THEN TrimSlashes(Tail(s)) ELSE s

\* ConnectionInfo::new, with the id Uuid::new_v4 drew, and the fields the
\* two parse_connection_string set on it.
ParsedInfo(uuid, text, db_type, url) ==
    LET host == UnwrapOr(url.host, localhost)
        database == IF db_type = "SQLite" THEN url.path ELSE TrimSlashes(url.path)
        options == QueryPairs(url.query)
    IN  [id |-> uuid,
         name |-> IF db_type = "SQLite"
                  THEN <<"S", "Q", "L", "i", "t", "e", ":", " ">> \o database
                  ELSE database \o <<" ", "o", "n", " ">> \o host,
         db_type |-> db_type,
         connection_string |-> Some(text),
         host |-> Some(host),
         port |-> Some(UnwrapOr(url.port, default_port(db_type))),
         database |-> Some(database),
         username |-> Some(url.username),
         password |-> Some(UnwrapOr(url.password, <<>>)),
         options |-> IF options = {} THEN None ELSE Some(options)]

\* DatabaseManager::parse_connection_string
parse_connection_string(uuid, text) ==
    LET url == UrlParse(text) IN
    IF url.kind # "Ok" THEN url
    ELSE IF url.value.scheme \in {postgres, postgresql}
    THEN ConvOk(ParsedInfo(uuid, text, "Postgres", url.value))
    ELSE IF url.value.scheme \in {mysql, mariadb}
    THEN ConvOk(ParsedInfo(uuid, text, "MySQL", url.value))
    ELSE IF url.value.scheme = sqlite
    THEN ConvOk(ParsedInfo(uuid, text, "SQLite", url.value))
    ELSE ConvErr("Config")

\* parse_connection_string of db/utils/strings.rs
utils_parse_connection_string(uuid, text) ==
    LET url == UrlParse(text) IN
    IF url.kind # "Ok" THEN url
    ELSE IF url.value.scheme \in {postgres, postgresql}
    THEN ConvOk(ParsedInfo(uuid, text, "Postgres", url.value))
    ELSE ConvErr("Config")

\* One configuration, not yet resolved.
ConvInit ==
    /\ NoRegistry
    /\ NoScript
    /\ NoTransactions
    /\ query = NoQuery
    /\ intro = NoIntro
    /\ build = NoBuild
    /\ ser = NoSer
    /\ app = NoApp
    /\ pgc = NoClientCalls
    /\ \E c \in ConnectionInfos :
           conv = [phase |-> "config", cfg |-> c, parser |-> "none",
                   text |-> ConvErr("none"), parsed |-> ConvErr("none")]

\* The configuration is resolved to its connection string.
Resolve ==
    /\ conv.phase = "config"
    /\ conv' = [conv EXCEPT !.phase = "resolved",
                            !.text = to_connection_string(conv.cfg)]
    /\ UNCHANGED besideConv

\* The connection string is parsed by DatabaseManager::parse_connection_string.
Parse ==
    /\ conv.phase = "resolved"
    /\ conv.text.kind = "Ok"
    /\ \E uuid \in ConvIds :
           conv' = [conv EXCEPT !.phase = "parsed", !.parser = "manager",
                       !.parsed = parse_connection_string(uuid, conv.text.value)]
    /\ UNCHANGED besideConv

\* The connection string is parsed by the parse_connection_string of
\* db/utils/strings.rs.
UtilsParse ==
    /\ conv.phase = "resolved"
    /\ conv.text.kind = "Ok"
    /\ \E uuid \in ConvIds :
           conv' = [conv EXCEPT !.phase = "parsed", !.parser = "utils",
                       !.parsed = utils_parse_connection_string(uuid,
                                                                conv.text.value)]
    /\ UNCHANGED besideConv

ConvNext ==
    \/ Resolve
    \/ Parse
    \/ UtilsParse

ConvSpec == ConvInit /\ [][ConvNext]_vars

(***************************************************************************)
(* get_tables_info of db/postgres/mod.rs: one pass over the column rows    *)
(* of the catalog query, grouping them into one TableInfo per table        *)
(***************************************************************************)

\* The rows of the catalog query: schema, table and column name, and the
\* is_primary flag.  A relation name is never empty.  Rank gives the order
\* of ORDER BY n.nspname, c.relname, a.attnum.
SchemaNames == {"s1", "s2"}
TableNames == {"t1", "t2"}
ColumnNames == {"c1", "c2"}
Rank == [s1 |-> 1, s2 |-> 2, t1 |-> 1, t2 |-> 2, c1 |-> 1, c2 |-> 2]
ColumnRows == [schema_name : SchemaNames, table_name : TableNames,
               column_name : ColumnNames, is_primary : BOOLEAN]

\* ColumnInfo, TableInfo
ColumnInfo(row) == [name |-> row.column_name, primary_key |-> row.is_primary]

RECURSIVE PrimaryKeyColumns(_)
PrimaryKeyColumns(columns) ==
    IF columns = <<>> THEN <<>>
    ELSE (IF Head(columns).primary_key THEN <<Head(columns).name>> ELSE <<>>)
            \o PrimaryKeyColumns(Tail(columns))

TableInfo(schema, table, columns) ==
    [name |-> table, schema |-> schema, columns |-> columns,
     primary_key_columns |-> PrimaryKeyColumns(columns)]

\* tables.push(TableInfo {..}) of the table the accumulator holds, when it
\* holds one.
Flush(b) ==
    IF b.current_table # ""
    THEN [b EXCEPT !.tables = Append(@, TableInfo(b.current_schema,
                                        b.current_table, b.current_columns))]
    ELSE b

\* get_tables_info after fetch_all: the rows, and the empty accumulator.
BuildInit ==
    /\ NoRegistry
    /\ NoScript
    /\ NoTransactions
    /\ query = NoQuery
    /\ conv = NoConv
    /\ intro = NoIntro
    /\ ser = NoSer
    /\ app = NoApp
    /\ pgc = NoClientCalls
    /\ \E rows \in Strings(ColumnRows, MaxStream) :
           build = [phase |-> "loop", rows |-> rows, i |-> 0, tables |-> <<>>,
                    current_schema |-> "", current_table |-> "",
                    current_columns |-> <<>>, ret |-> "none"]

\* A faulty test: only the table name is compared.
KeyChangedTableOnly(b, row) == b.current_table # row.table_name

\* current_schema != schema_name || current_table != table_name
KeyChanged(b, row) ==
    b.current_schema # row.schema_name \/ b.current_table # row.table_name

\* The loop takes the next row: on a new (schema, table) the table held is
\* pushed, after get_constraints and get_indices, which the backend answers
\* or fails, and the accumulator starts over; the row's column is added.
BuildRow ==
    /\ build.phase = "loop"
    /\ build.i < Len(build.rows)
    /\ LET row == build.rows[build.i + 1]
           changed == KeyChanged(build, row)
           started == IF changed
                      THEN [Flush(build) EXCEPT
                               !.current_schema = row.schema_name,
                               !.current_table = row.table_name,
                               !.current_columns = <<>>]
                      ELSE build
       IN  \/ build' = [started EXCEPT
                           !.i = @ + 1,
                           !.current_columns = Append(@, ColumnInfo(row))]
           \/ /\ changed
              /\ build.current_table # ""
              /\ build' = [build EXCEPT !.phase = "returned", !.ret = "Query"]
    /\ UNCHANGED besideBuild

\* A faulty end of the loop: the table held when the rows end is not pushed.
BuildEndForgetsLast(b) == b

\* After the loop the table held is pushed.
AddLastTable(b) == Flush(b)

\* The rows are used up: the last table is added and the list returned,
\* unless get_constraints or get_indices fails.
BuildEnd ==
    /\ build.phase = "loop"
    /\ build.i = Len(build.rows)
    /\ \/ build' = [AddLastTable(build) EXCEPT !.phase = "returned", !.ret = "Ok"]
       \/ /\ build.current_table # ""
          /\ build' = [build EXCEPT !.phase = "returned", !.ret = "Query"]
    /\ UNCHANGED besideBuild

BuildNext ==
    \/ BuildRow
    \/ BuildEnd

BuildSpec == BuildInit /\ [][BuildNext]_vars

(***************************************************************************)
(* get_entities of db/postgres/mod.rs: four catalog queries, one after the *)
(* other, against a catalog that other sessions change                     *)
(***************************************************************************)

\* The objects the backend can hold: each is there while its schema is.
CatalogObjects ==
    <<[name |-> "t1", schema |-> "s1", entity_type |-> "Table"],
      [name |-> "t2", schema |-> "s2", entity_type |-> "Table"],
      [name |-> "v1", schema |-> "s1", entity_type |-> "View"],
      [name |-> "m2", schema |-> "s2", entity_type |-> "MaterializedView"],
      [name |-> "f1", schema |-> "s1", entity_type |-> "Function"],
      [name |-> "p2", schema |-> "s2", entity_type |-> "Procedure"]>>
SchemaOrder == <<"s1", "s2">>

\* The rows a catalog query returns: the schemas, or the objects of the
\* kinds asked for, of the schemas that exist when the query runs.
SchemaRows(live) ==
    SelectSeq([i \in DOMAIN SchemaOrder |->
                  [name |-> SchemaOrder[i], schema |-> "",
                   entity_type |-> "Schema"]],
              LAMBDA e : e.name \in live)
ObjectRows(live, kinds) ==
    SelectSeq(CatalogObjects,
              LAMBDA e : e.schema \in live /\ e.entity_type \in kinds)

\* get_entities on a connected client, before its first query.
IntroInit ==
    /\ NoRegistry
    /\ NoScript
    /\ NoTransactions
    /\ query = NoQuery
    /\ conv = NoConv
    /\ build = NoBuild
    /\ ser = NoSer
    /\ app = NoApp
    /\ pgc = NoClientCalls
    /\ \E live \in SUBSET SchemaNames :
           intro = [phase |-> "schemas", live |-> live, ddl |-> 0,
                    entities |-> <<>>, ret |-> "none"]

\* One query of get_entities: its rows are pushed as entities and the call
\* goes on to the next query, or the query fails and the call returns.
IntroQuery(phase, rows, next) ==
    /\ intro.phase = phase
    /\ \/ intro' = [intro EXCEPT !.phase = next,
                                 !.entities = @ \o rows,
                                 !.ret = IF next = "returned" THEN "Ok" ELSE @]
       \/ intro' = [intro EXCEPT !.phase = "returned", !.ret = "Query"]
    /\ UNCHANGED besideIntro

\* The schemas, each pushed as an entity of type Schema.
IntroSchemas == IntroQuery("schemas", SchemaRows(intro.live), "tables")

\* get_tables_info, each table pushed as an entity of type Table.
IntroTables ==
    IntroQuery("tables", ObjectRows(intro.live, {"Table"}), "views")

\* get_views_info, each pushed as View or MaterializedView.
IntroViews ==
    IntroQuery("views", ObjectRows(intro.live, {"View", "MaterializedView"}),
               "functions")

\* get_functions_info, each pushed as Function or Procedure; Ok(entities).
IntroFunctions ==
    IntroQuery("functions", ObjectRows(intro.live, {"Function", "Procedure"}),
               "returned")

\* Another session drops a schema with its objects.
DropSchema ==
    /\ intro.phase \notin {"none", "returned"}
    /\ intro.ddl < MaxDdl
    /\ \E s \in intro.live :
           intro' = [intro EXCEPT !.live = @ \ {s}, !.ddl = @ + 1]
    /\ UNCHANGED besideIntro

\* Another session creates a schema and its objects.
CreateSchema ==
    /\ intro.phase \notin {"none", "returned"}
    /\ intro.ddl < MaxDdl
    /\ \E s \in SchemaNames \ intro.live :
           intro' = [intro EXCEPT !.live = @ \cup {s}, !.ddl = @ + 1]
    /\ UNCHANGED besideIntro

IntroNext ==
    \/ IntroSchemas
    \/ IntroTables
    \/ IntroViews
    \/ IntroFunctions
    \/ DropSchema
    \/ CreateSchema

IntroSpec == IntroInit /\ [][IntroNext]_vars

(***************************************************************************)
(* PostgresClient of db/clients/postgres.rs: one client object and the     *)
(* calls several callers make on it                                        *)
(***************************************************************************)

\* What makes a backend call fail: the pool gave no connection in time,
\* the pool is closed, the driver's worker is gone, the backend refused the
\* connection, or the backend rejected the statement.
PoolFailures == {"PoolTimedOut", "PoolClosed", "WorkerCrashed"}
Introspections == {"get_schema_info", "get_tables"}

NoPgCall == [pc |-> "idle", op |-> "none", pool |-> 0, ret |-> NoRet]

\* PostgresClient::new: no pool.  The connection info is complete, or lacks
\* a field connect needs.
PgInit ==
    /\ NoRegistry
    /\ NoScript
    /\ NoTransactions
    /\ query = NoQuery
    /\ conv = NoConv
    /\ intro = NoIntro
    /\ build = NoBuild
    /\ ser = NoSer
    /\ app = NoApp
    /\ \E info \in {"complete", "incomplete"} :
           pgc = [info |-> info, slot |-> 0, open |-> {}, built |-> 0,
                  mx |-> NoProc, calls |-> 0,
                  call |-> [c \in Callers |-> NoPgCall]]

\* Caller c starts a call: it is in none, and takes the pool mutex first.
PgStart(c) ==
    /\ pgc.call[c].pc = "idle"
    /\ pgc.calls < MaxClientCalls
    /\ pgc.mx = NoProc

PgDone(c, op, r) ==
    [pgc.call[c] EXCEPT !.pc = "done", !.op = op, !.ret = r]

\* A faulty connect: the pool mutex is not held while the pool is built.
PgConnectUnlocked(c) ==
    /\ PgStart(c)
    /\ IF pgc.slot # 0
       THEN pgc' = [pgc EXCEPT !.calls = @ + 1,
                               !.call[c] = PgDone(c, "connect", Ok)]
       ELSE IF pgc.info = "incomplete"
       THEN pgc' = [pgc EXCEPT !.calls = @ + 1,
                       !.call[c] = PgDone(c, "connect",
                                       Err("Config", "Host is required"))]
       ELSE pgc' = [pgc EXCEPT !.calls = @ + 1,
                               !.call[c] = [@ EXCEPT !.pc = "dialing",
                                                     !.op = "connect"]]
    /\ UNCHANGED besideClient

\* connect: locks the pool mutex; with a pool in the field it returns Ok;
\* without the fields it needs it fails; else it goes on to build a pool,
\* holding the mutex.
PgConnect(c) ==
    /\ PgStart(c)
    /\ IF pgc.slot # 0
       THEN pgc' = [pgc EXCEPT !.calls = @ + 1,
                               !.call[c] = PgDone(c, "connect", Ok)]
       ELSE IF pgc.info = "incomplete"
       THEN pgc' = [pgc EXCEPT !.calls = @ + 1,
                       !.call[c] = PgDone(c, "connect",
                                       Err("Config", "Host is required"))]
       ELSE pgc' = [pgc EXCEPT !.calls = @ + 1, !.mx = c,
                               !.call[c] = [@ EXCEPT !.pc = "dialing",
                                                     !.op = "connect"]]
    /\ UNCHANGED besideClient

\* connect: connect_with(options).await returns the pool, which is stored,
\* or an error, which becomes DbError::Connection.
PgDialed(c) ==
    /\ pgc.call[c].pc = "dialing"
    /\ \/ LET n == pgc.built + 1 IN
          pgc' = [pgc EXCEPT !.built = n, !.slot = n, !.open = @ \cup {n},
                             !.mx = NoProc,
                             !.call[c] = PgDone(c, "connect", Ok)]
       \/ \E cause \in {"PoolTimedOut", "Refused"} :
          pgc' = [pgc EXCEPT !.mx = NoProc,
                             !.call[c] = PgDone(c, "connect",
                                                Err("Connection", cause))]
    /\ UNCHANGED besideClient

\* A faulty disconnect: the pool is closed and stays in the field.
PgDisconnectKeepsPool(c) ==
    /\ PgStart(c)
    /\ IF pgc.slot # 0
       THEN pgc' = [pgc EXCEPT !.calls = @ + 1, !.mx = c,
                               !.open = @ \ {pgc.slot},
                               !.call[c] = [@ EXCEPT !.pc = "closing",
                                                     !.op = "disconnect",
                                                     !.pool = pgc.slot]]
       ELSE pgc' = [pgc EXCEPT !.calls = @ + 1,
                               !.call[c] = PgDone(c, "disconnect", Ok)]
    /\ UNCHANGED besideClient

\* disconnect: locks the pool mutex and takes the pool out of the field;
\* a pool taken is closed; with none it returns Ok.
PgDisconnect(c) ==
    /\ PgStart(c)
    /\ IF pgc.slot # 0
       THEN pgc' = [pgc EXCEPT !.calls = @ + 1, !.mx = c, !.slot = 0,
                               !.open = @ \ {pgc.slot},
                               !.call[c] = [@ EXCEPT !.pc = "closing",
                                                     !.op = "disconnect",
                                                     !.pool = pgc.slot]]
       ELSE pgc' = [pgc EXCEPT !.calls = @ + 1,
                               !.call[c] = PgDone(c, "disconnect", Ok)]
    /\ UNCHANGED besideClient

\* disconnect: pool.close().await returns once the connections handed out
\* are back.
PgClosed(c) ==
    /\ pgc.call[c].pc = "closing"
    /\ \A d \in Callers :
         ~(pgc.call[d].pc = "sent" /\ pgc.call[d].pool = pgc.call[c].pool)
    /\ pgc' = [pgc EXCEPT !.mx = NoProc,
                          !.call[c] = PgDone(c, "disconnect", Ok)]
    /\ UNCHANGED besideClient

\* execute_query and the introspection calls begin with get_pool: under
\* the pool mutex, a clone of the pool, or "Not connected to database".
PgGetPool(c) ==
    /\ PgStart(c)
    /\ \E op \in {"execute_query"} \cup Introspections :
        IF pgc.slot = 0
        THEN pgc' = [pgc EXCEPT !.calls = @ + 1,
                        !.call[c] = PgDone(c, op,
                            Err("Connection", "Not connected to database"))]
        ELSE pgc' = [pgc EXCEPT !.calls = @ + 1,
                                !.call[c] = [@ EXCEPT !.pc = "acquire",
                                                      !.op = op,
                                                      !.pool = pgc.slot]]
    /\ UNCHANGED besideClient

\* The statement asks the cloned pool for a connection: a closed pool
\* refuses, an open one hands one out or times out.  map_err wraps the
\* refusal as DbError::Query.
PgAcquire(c) ==
    /\ pgc.call[c].pc = "acquire"
    /\ IF pgc.call[c].pool \notin pgc.open
       THEN pgc' = [pgc EXCEPT !.call[c] =
                       PgDone(c, @.op, Err("Query", "PoolClosed"))]
       ELSE \/ pgc' = [pgc EXCEPT !.call[c].pc = "sent"]
            \/ pgc' = [pgc EXCEPT !.call[c] =
                          PgDone(c, @.op, Err("Query", "PoolTimedOut"))]
    /\ UNCHANGED besideClient

\* The backend answers the statement, rejects it, or the driver's worker
\* is gone; map_err wraps every error as DbError::Query.
PgAnswer(c) ==
    /\ pgc.call[c].pc = "sent"
    /\ \E r \in {Ok, Err("Query", "Database"), Err("Query", "WorkerCrashed")} :
          pgc' = [pgc EXCEPT !.call[c] = PgDone(c, @.op, r)]
    /\ UNCHANGED besideClient

\* The call returns to its caller.
PgReturn(c) ==
    /\ pgc.call[c].pc = "done"
    /\ pgc' = [pgc EXCEPT !.call[c] = NoPgCall]
    /\ UNCHANGED besideClient

PgNext ==
    \E c \in Callers :
        \/ PgConnect(c)
        \/ PgDialed(c)
        \/ PgDisconnect(c)
        \/ PgClosed(c)
        \/ PgGetPool(c)
        \/ PgAcquire(c)
        \/ PgAnswer(c)
        \/ PgReturn(c)

PgSpec == PgInit /\ [][PgNext]_vars

(***************************************************************************)
(* sqlx_row_to_row of db/utils/serialization.rs: each column of the row is *)
(* read by the arm of its declared type name and becomes a JSON value      *)
(***************************************************************************)

\* The type names of the arms.
IntegerTypes == {"int", "integer", "int2", "int4", "int8", "smallint", "bigint"}
FloatTypes == {"float", "double", "real", "float4", "float8"}
BooleanTypes == {"bool", "boolean"}
StringTypes == {"char", "varchar", "text", "name", "citext"}
DateTimeTypes == {"timestamp", "timestamptz", "date", "time", "timetz"}
JsonTypes == {"json", "jsonb"}
UuidTypes == {"uuid"}
BinaryTypes == {"bytea", "blob", "binary"}

\* column.data_type: names of every arm, in either case, and names of none.
DataTypes == {"int4", "INT8", "float8", "BOOL", "text", "VARCHAR",
              "timestamptz", "date", "JSONB", "uuid", "BYTEA",
              "NUMERIC", "varchar(10)", "interval"}

\* str::to_lowercase on those names
to_lowercase(name) ==
    CASE name = "INT8" -> "int8"
      [] name = "BOOL" -> "bool"
      [] name = "VARCHAR" -> "varchar"
      [] name = "JSONB" -> "jsonb"
      [] name = "BYTEA" -> "bytea"
      [] name = "NUMERIC" -> "numeric"
      [] OTHER -> name

\* The types try_get is asked for.
RustTypes == {"i64", "i32", "i16", "f64", "bool", "String", "DateTime<Utc>",
              "NaiveDateTime", "Value", "Uuid", "Vec<u8>"}

\* What the row holds at a column: nothing (try_get_raw fails), SQL NULL, or
\* a value, which decodes to some of the Rust types and to no other; a float
\* it decodes to is finite or not.
RawValues ==
    {[state |-> "missing", reads |-> {}, finite |-> TRUE],
     [state |-> "null", reads |-> {}, finite |-> TRUE]}
    \cup {r \in [state : {"value"}, reads : SUBSET RustTypes, finite : BOOLEAN] :
            /\ Cardinality(r.reads) <= MaxReads
            /\ ~r.finite => "f64" \in r.reads}

\* serde_json::Value, told apart by variant, by the read it comes from and
\* by the arm that made it.
JsonValue(kind, from, arm) == [kind |-> kind, from |-> from, arm |-> arm]
ValueNull(arm) == JsonValue("null", "none", arm)

\* row.try_get::<T, _>(i) is Ok
TryGet(raw, T) == T \in raw.reads

\* A faulty default arm: the string is read with get, which panics when the
\* value is no string.
DefaultArmUnwraps(raw) ==
    IF TryGet(raw, "String") THEN JsonValue("string", "String", "default")
    ELSE JsonValue("panic", "String", "default")

\* Default to string representation
DefaultArm(raw) ==
    IF TryGet(raw, "String") THEN JsonValue("string", "String", "default")
    ELSE ValueNull("default")

\* The value of one column: the body of the loop.
ColumnValue(data_type, raw) ==
    IF raw.state # "value" THEN ValueNull("none")
    ELSE LET t == to_lowercase(data_type) IN
    CASE t \in IntegerTypes ->
            IF TryGet(raw, "i64") THEN JsonValue("number", "i64", "integer")
            ELSE IF TryGet(raw, "i32") THEN JsonValue("number", "i32", "integer")
            ELSE IF TryGet(raw, "i16") THEN JsonValue("number", "i16", "integer")
            ELSE ValueNull("integer")
      [] t \in FloatTypes ->
            IF TryGet(raw, "f64") /\ raw.finite
            THEN JsonValue("number", "f64", "float")
            ELSE ValueNull("float")
      [] t \in BooleanTypes ->
            IF TryGet(raw, "bool") THEN JsonValue("boolean", "bool", "boolean")
            ELSE ValueNull("boolean")
      [] t \in StringTypes ->
            IF TryGet(raw, "String") THEN JsonValue("string", "String", "string")
            ELSE ValueNull("string")
      [] t \in DateTimeTypes ->
            IF TryGet(raw, "DateTime<Utc>")
            THEN JsonValue("string", "DateTime<Utc>", "datetime")
            ELSE IF TryGet(raw, "NaiveDateTime")
            THEN JsonValue("string", "NaiveDateTime", "datetime")
            ELSE ValueNull("datetime")
      [] t \in JsonTypes ->
            IF TryGet(raw, "Value") THEN JsonValue("json", "Value", "json")
            ELSE ValueNull("json")
      [] t \in UuidTypes ->
            IF TryGet(raw, "Uuid") THEN JsonValue("string", "Uuid", "uuid")
            ELSE ValueNull("uuid")
      [] t \in BinaryTypes ->
            IF TryGet(raw, "Vec<u8>")
            THEN JsonValue("binary marker", "Vec<u8>", "binary")
            ELSE ValueNull("binary")
      [] OTHER -> DefaultArm(raw)

NoColumn == [data_type |-> "none",
             raw |-> [state |-> "missing", reads |-> {}, finite |-> TRUE]]

\* sqlx_row_to_row is called with a row and its column definitions.
SerInit ==
    /\ NoRegistry
    /\ NoScript
    /\ NoTransactions
    /\ query = NoQuery
    /\ conv = NoConv
    /\ intro = NoIntro
    /\ build = NoBuild
    /\ pgc = NoClientCalls
    /\ app = NoApp
    /\ \E n \in 0..MaxColumns :
           ser = [phase |-> "loop", n |-> n, column |-> NoColumn,
                  values |-> <<>>, ret |-> "none"]

\* The loop takes the next column of the row.
SerColumn ==
    /\ ser.phase = "loop"
    /\ Len(ser.values) < ser.n
    /\ \E data_type \in DataTypes, raw \in RawValues :
           ser' = [ser EXCEPT !.phase = "column",
                              !.column = [data_type |-> data_type, raw |-> raw]]
    /\ UNCHANGED besideSer

\* The column's value is inserted.
SerInsert ==
    /\ ser.phase = "column"
    /\ ser' = [ser EXCEPT
                  !.phase = "loop",
                  !.column = NoColumn,
                  !.values = Append(@, ColumnValue(ser.column.data_type,
                                                   ser.column.raw))]
    /\ UNCHANGED besideSer

\* Ok(ResultRow { values })
SerReturn ==
    /\ ser.phase = "loop"
    /\ Len(ser.values) = ser.n
    /\ ser' = [ser EXCEPT !.phase = "returned", !.ret = "Ok"]
    /\ UNCHANGED besideSer

SerNext ==
    \/ SerColumn
    \/ SerInsert
    \/ SerReturn

SerSpec == SerInit /\ [][SerNext]_vars

(***************************************************************************)
(* AppState of state.rs: the windows map behind a std::sync::RwLock, used  *)
(* by tasks.  A write() or read() on a lock that another task holds for    *)
(* writing waits; on a lock its own thread holds, std lets it wait forever *)
(* or panic; on a poisoned lock it returns Err, which unwrap() turns into  *)
(* a panic.                                                                *)
(***************************************************************************)

Tasks == {"k1", "k2"}
NoTask == "none"
WindowIds == {"w1", "w2"}
ProjectIds == {"pA", "pB"}
NoProject == "none"

\* A task in no call.
NoFrame == [pc |-> "idle", op |-> "none", window |-> "none", ids |-> <<>>,
            found |-> {}, inner |-> FALSE, ret |-> "none"]

\* AppState::default(): no window.
AppInit ==
    /\ NoRegistry
    /\ NoScript
    /\ NoTransactions
    /\ query = NoQuery
    /\ conv = NoConv
    /\ intro = NoIntro
    /\ build = NoBuild
    /\ pgc = NoClientCalls
    /\ ser = NoSer
    /\ app = [phase |-> "run",
              windows |-> [w \in WindowIds |-> NoProject],
              writer |-> NoTask,
              poisoned |-> FALSE,
              asked |-> {},
              calls |-> 0,
              task |-> [t \in Tasks |-> NoFrame]]

\* Task t is between two calls and starts one.
AppStart(t) ==
    /\ app.phase = "run"
    /\ app.task[t].pc = "idle"
    /\ app.calls < MaxAppCalls

\* Every order of the elements of set S.
Orders(S) == {s \in [1..Cardinality(S) -> S] : \A i, j \in DOMAIN s : i # j => s[i] # s[j]}

\* The call of t ends with r; an inner cleanup_window goes back to the loop
\* of cleanup_all.
AppDone(f, r) ==
    IF f.inner
    THEN [f EXCEPT !.pc = "ca_loop", !.inner = FALSE, !.window = "none"]
    ELSE [f EXCEPT !.pc = "done", !.ret = r]

\* get_or_create_project: under windows.write(), the window of the project
\* when there is one, else load_connection_info, which may fail, and a new
\* window id for a new project.
GetOrCreateProject(t) ==
    /\ AppStart(t)
    /\ app.writer = NoTask
    /\ \E project \in ProjectIds :
        LET f == [NoFrame EXCEPT !.op = "get_or_create_project"] IN
        IF app.poisoned
        THEN app' = [app EXCEPT !.calls = @ + 1,
                                !.task[t] = [f EXCEPT !.pc = "panicked"]]
        ELSE IF \E w \in WindowIds : app.windows[w] = project
        THEN \E w \in {v \in WindowIds : app.windows[v] = project} :
                app' = [app EXCEPT !.calls = @ + 1,
                                   !.task[t] = [f EXCEPT !.pc = "done", !.window = w,
                                                         !.ret = "Ok"]]
        ELSE \/ app' = [app EXCEPT !.calls = @ + 1,
                                   !.task[t] = [f EXCEPT !.pc = "done", !.ret = "Err"]]
             \/ \E w \in {v \in WindowIds : app.windows[v] = NoProject} :
                    app' = [app EXCEPT !.calls = @ + 1,
                                       !.windows[w] = project,
                                       !.task[t] = [f EXCEPT !.pc = "done",
                                                             !.window = w,
                                                             !.ret = "Ok"]]
    /\ UNCHANGED besideApp

\* get_project_by_window: under windows.read().
GetProjectByWindow(t) ==
    /\ AppStart(t)
    /\ app.writer = NoTask
    /\ \E w \in WindowIds :
        LET f == [NoFrame EXCEPT !.op = "get_project_by_window", !.window = w] IN
        app' = [app EXCEPT
                   !.calls = @ + 1,
                   !.task[t] = IF app.poisoned
                               THEN [f EXCEPT !.pc = "panicked"]
                               ELSE [f EXCEPT !.pc = "done",
                                              !.ret = app.windows[w]]]
    /\ UNCHANGED besideApp

\* cleanup_window is called for a window.
CleanupWindow(t) ==
    /\ AppStart(t)
    /\ \E w \in WindowIds :
        app' = [app EXCEPT
                   !.calls = @ + 1,
                   !.task[t] = [NoFrame EXCEPT !.op = "cleanup_window",
                                               !.pc = "cw_lock", !.window = w]]
    /\ UNCHANGED besideApp

\* cleanup_window: windows.write() on a lock that nobody holds, then
\* windows.remove(window_id); with a project the call goes on to
\* remove_connection, the guard alive; with none it returns Err.
CleanupWindowLock(t) ==
    /\ app.phase = "run"
    /\ app.task[t].pc = "cw_lock"
    /\ app.writer = NoTask
    /\ LET f == app.task[t] IN
       IF app.poisoned
       THEN app' = [app EXCEPT !.task[t] = [f EXCEPT !.pc = "panicked"]]
       ELSE IF app.windows[f.window] # NoProject
       THEN app' = [app EXCEPT !.writer = t,
                               !.windows[f.window] = NoProject,
                               !.task[t] = [f EXCEPT !.pc = "cw_remove"]]
       ELSE app' = [app EXCEPT !.task[t] = AppDone(f, "Err")]
    /\ UNCHANGED besideApp

\* windows.write() on the lock that the task itself holds: std may panic
\* instead of waiting forever; the guard of the task is dropped by the
\* unwinding and poisons the lock.
WriteOnOwnLockPanics(t) ==
    /\ app.phase = "run"
    /\ app.task[t].pc = "cw_lock"
    /\ app.writer = t
    /\ app' = [app EXCEPT !.writer = NoTask,
                          !.poisoned = TRUE,
                          !.task[t] = [@ EXCEPT !.pc = "panicked"]]
    /\ UNCHANGED besideApp

\* cleanup_window: remove_connection(window_id) returns, its error is only
\* logged; Ok(()) drops the guard.
CleanupWindowRemoved(t) ==
    /\ app.phase = "run"
    /\ app.task[t].pc = "cw_remove"
    /\ LET f == app.task[t] IN
       app' = [app EXCEPT !.writer = NoTask,
                          !.asked = @ \cup {f.window},
                          !.task[t] = AppDone(f, "Ok")]
    /\ UNCHANGED besideApp

\* cleanup_all: windows.write(), kept to the end of the call, and the keys
\* of the map, in the order the HashMap yields them.
CleanupAll(t) ==
    /\ AppStart(t)
    /\ app.writer = NoTask
    /\ LET f == [NoFrame EXCEPT !.op = "cleanup_all"]
           keys == {w \in WindowIds : app.windows[w] # NoProject} IN
       IF app.poisoned
       THEN app' = [app EXCEPT !.calls = @ + 1,
                               !.task[t] = [f EXCEPT !.pc = "panicked"]]
       ELSE \E window_ids \in Orders(keys) :
              app' = [app EXCEPT !.calls = @ + 1,
                                 !.writer = t,
                                 !.task[t] = [f EXCEPT !.pc = "ca_loop",
                                                       !.ids = window_ids,
                                                       !.found = keys]]
    /\ UNCHANGED besideApp

\* cleanup_all: the loop calls cleanup_window for the next window id; after
\* the last it goes on to clear the map.
CleanupAllLoop(t) ==
    /\ app.phase = "run"
    /\ app.task[t].pc = "ca_loop"
    /\ LET f == app.task[t] IN
       IF f.ids = <<>>
       THEN app' = [app EXCEPT !.task[t] = [f EXCEPT !.pc = "ca_clear"]]
       ELSE app' = [app EXCEPT !.task[t] = [f EXCEPT !.pc = "cw_lock",
                                                     !.inner = TRUE,
                                                     !.window = Head(f.ids),
                                                     !.ids = Tail(f.ids)]]
    /\ UNCHANGED besideApp

\* cleanup_all: windows.clear(), then close_all_connections is awaited.
CleanupAllClear(t) ==
    /\ app.phase = "run"
    /\ app.task[t].pc = "ca_clear"
    /\ app' = [app EXCEPT !.windows = [w \in WindowIds |-> NoProject],
                          !.task[t] = [@ EXCEPT !.pc = "ca_close"]]
    /\ UNCHANGED besideApp

\* cleanup_all: close_all_connections returns, the call ends and drops the
\* guard.
CleanupAllClosed(t) ==
    /\ app.phase = "run"
    /\ app.task[t].pc = "ca_close"
    /\ app' = [app EXCEPT !.writer = NoTask,
                          !.task[t] = [@ EXCEPT !.pc = "done", !.ret = "Ok"]]
    /\ UNCHANGED besideApp

\* The caller takes the result; the task may call again.
AppReturn(t) ==
    /\ app.phase = "run"
    /\ app.task[t].pc = "done"
    /\ app' = [app EXCEPT !.task[t] = NoFrame]
    /\ UNCHANGED besideApp

AppNext ==
    \E t \in Tasks :
        \/ GetOrCreateProject(t)
        \/ GetProjectByWindow(t)
        \/ CleanupWindow(t)
        \/ CleanupWindowLock(t)
        \/ WriteOnOwnLockPanics(t)
        \/ CleanupWindowRemoved(t)
        \/ CleanupAll(t)
        \/ CleanupAllLoop(t)
        \/ CleanupAllClear(t)
        \/ CleanupAllClosed(t)
        \/ AppReturn(t)

AppSpec == AppInit /\ [][AppNext]_vars

(***************************************************************************)
(* Vocabulary of the properties                                            *)
(***************************************************************************)

ExecOps == {"execute_query", "execute_queries"}

\* Caller p takes a step of a call of operation op.
StepOf(p, op) == pc[p] # pc'[p] /\ loc'[p].op = op

\* The caller that p waits for: the holder of the lock p is about to take.
WaitsOn(p) ==
    CASE pc[p] \in {"upd_clients", "rem_relock", "con_store"} -> cliW
      [] pc[p] \in {"rem_conns", "upd_relock", "con_get", "load_add"} -> connW
      [] pc[p] \in {"disc", "exe_pool"} -> poolM[loc[p].client]
      [] OTHER -> NoProc

\* The client objects built for id whose pool is open and which no caller
\* has taken out of the map to tear down.
ConnectedFor(id) ==
    {c \in ClientIds : /\ cfor[c] = id
                       /\ pool[c] = "open"
                       /\ ~\E p \in Procs : pc[p] = "disc" /\ loc[p].client = c}

\* C1: connect(id) is atomic towards other connect(id) calls: at most one
\* connected client exists for an id, and every connected client is the
\* live client of its id or still on its way into the map.
C1_ConnectAtomic ==
    \A id \in Ids :
        /\ Cardinality(ConnectedFor(id)) <= 1
        /\ \A c \in ConnectedFor(id) :
            \/ clients[id] = c
            \/ \E p \in Procs : pc[p] = "con_store" /\ loc[p].client = c

\* C2: no set of callers waits forever on each other's registry locks:
\* there is never a group of callers each waiting on a lock that another
\* caller of the group holds.
C2_NoLockCycle ==
    ~\E S \in SUBSET Procs :
        /\ S # {}
        /\ \A p \in S : WaitsOn(p) \in S \ {p}

\* C3: every id with a live client has a stored configuration.
C3_LiveClientHasConfig ==
    \A id \in Ids : ContainsKey(clients, id) => ContainsCfg(connections, id)

\* C4: connect(id) on an id with a live client returns that client, dials
\* nothing and changes nothing; a connect(id) that found no live client dials
\* once and, when the dial succeeds, stores the client it dialed and returns
\* it.  So two calls in sequence leave one live client, dialed once.
C4_ConnectIdempotent ==
    [][\A p \in Procs :
        /\ (pc[p] = "idle" /\ StepOf(p, "connect")
                /\ ContainsKey(clients, loc'[p].id))
            => /\ pc'[p] = "done"
               /\ ret'[p] = OkClient(clients[loc'[p].id])
               /\ loc'[p].dials = 0
               /\ UNCHANGED <<registry, objects>>
        /\ (pc[p] = "con_dial" /\ StepOf(p, "connect") /\ pc'[p] = "con_store")
            => /\ loc'[p].dials = 1
               /\ pool'[loc[p].client] = "open"
        /\ (pc[p] = "con_store" /\ StepOf(p, "connect"))
            => /\ loc[p].dials = 1
               /\ clients'[loc[p].id] = loc[p].client
               /\ ret'[p] = OkClient(loc[p].client)
               /\ pool'[loc[p].client] = "open"
               /\ UNCHANGED objects
      ]_vars

\* C4 witness: a second connect has returned the live client without a dial.
C4_Witness ==
    \E p \in Procs :
        /\ pc[p] = "done" /\ loc[p].op = "connect" /\ loc[p].dials = 0
        /\ ret[p].kind = "Ok"
        /\ ret[p].client = clients[loc[p].id]
        /\ pool[ret[p].client] = "open"
        /\ Cardinality(ConnectedFor(loc[p].id)) = 1

\* C5: an execute racing with disconnect never hands a statement to the
\* closed pool: while statements run on a closed pool the teardown is still
\* waiting for them, and no execute ends with the closed pool's refusal
\* (it ends with a not-connected error instead).
C5_NoStatementOnClosedPool ==
    /\ \A c \in ClientIds :
        (pool[c] = "closed" /\ inflight[c] > 0)
            => \E p \in Procs : pc[p] = "closing" /\ loc[p].client = c
    /\ \A p, q \in Procs :
        (/\ pc[p] = "done" /\ loc[p].op \in ExecOps
         /\ loc[q].op = "disconnect" /\ loc[q].client = loc[p].client)
            => ret[p] # Err("Query", "PoolClosed")

\* C6: when remove(id) returns success for an id that had a live client,
\* that client was disconnected before the configuration was deleted, and
\* the registry then holds neither a configuration nor a live client for id.
C6_RemoveTearsDownFirst ==
    [][\A p \in Procs :
        (pc[p] = "rem_conns" /\ StepOf(p, "remove") /\ ret'[p].kind = "Ok"
                /\ loc[p].client # NoClient)
            => /\ ~slot[loc[p].client]
               /\ pool[loc[p].client] = "closed"
               /\ ContainsCfg(connections, loc[p].id)
               /\ ~ContainsCfg(connections', loc[p].id)
               /\ ~ContainsKey(clients', loc[p].id)
      ]_vars

\* C7: when update(id, newConfig) returns success for an id that had a
\* live client, that client was disconnected before the configuration was
\* replaced, the stored configuration is newConfig, and no live client for
\* id is left that was built from another configuration than newConfig.
C7_UpdateInvalidatesClient ==
    [][\A p \in Procs :
        (pc[p] = "upd_relock" /\ StepOf(p, "update") /\ ret'[p].kind = "Ok")
            => /\ ~slot[loc[p].client]
               /\ pool[loc[p].client] = "closed"
               /\ connections'[loc[p].id] = loc[p].cfg
               /\ ContainsKey(clients', loc[p].id)
                    => cinfo[clients'[loc[p].id]] = loc[p].cfg
      ]_vars

\* C8: disconnect(id) on an id with a live client takes the client out of
\* the map, so that is_connected(id) is false, and has torn it down when it
\* returns; on an id with no live client it returns NotFound and leaves both
\* maps as they were.
C8_DisconnectRemovesOrNotFound ==
    [][\A p \in Procs :
        /\ (pc[p] = "idle" /\ StepOf(p, "disconnect"))
            => IF ContainsKey(clients, loc'[p].id)
               THEN /\ ~ContainsKey(clients', loc'[p].id)
                    /\ loc'[p].client = clients[loc'[p].id]
                    /\ pc'[p] = "disc"
                    /\ UNCHANGED connections
               ELSE /\ pc'[p] = "done"
                    /\ ret'[p] = Err("NotFound", "Not connected to database")
                    /\ UNCHANGED <<connections, clients>>
        /\ (pc[p] # "idle" /\ StepOf(p, "disconnect") /\ pc'[p] = "done")
            => /\ ret'[p].kind = "Ok"
               /\ ~slot'[loc[p].client]
               /\ pool'[loc[p].client] = "closed"
               /\ poolM'[loc[p].client] = NoProc
               /\ \A i \in Ids : clients'[i] # loc[p].client
      ]_vars

\* C8 witness: one disconnect has returned success with its client torn
\* down, another has returned NotFound.
C8_Witness ==
    \E p, q \in Procs :
        /\ pc[p] = "done" /\ loc[p].op = "disconnect" /\ ret[p].kind = "Ok"
        /\ pool[loc[p].client] = "closed"
        /\ ~ContainsKey(clients, loc[p].id)
        /\ pc[q] = "done" /\ loc[q].op = "disconnect" /\ ret[q].kind = "NotFound"

\* C9: no step of disconnect(a), successful or failing, changes the live
\* client, the connected state or the stored configuration of another id b.
C9_DisconnectIsolation ==
    [][\A p \in Procs :
        StepOf(p, "disconnect")
            => \A b \in Ids \ {loc'[p].id} :
                /\ clients'[b] = clients[b]
                /\ connections'[b] = connections[b]
                /\ ContainsKey(clients, b)
                    => /\ slot'[clients[b]] = slot[clients[b]]
                       /\ pool'[clients[b]] = pool[clients[b]]
      ]_vars

\* C9 witness: disconnect(a) has torn down a's client and returned while
\* another id holds a live, connected client.
C9_Witness ==
    \E p \in Procs :
        /\ pc[p] = "done" /\ loc[p].op = "disconnect" /\ ret[p].kind = "Ok"
        /\ \E b \in Ids \ {loc[p].id} :
            /\ ContainsKey(clients, b)
            /\ pool[clients[b]] = "open"

\* C10: execute_query and execute_queries on an id with no live client
\* return the NotFound "not connected" error at once: no statement is sent,
\* no client is built or stored, nothing changes.
C10_ExecuteNeedsLiveClient ==
    [][\A p \in Procs :
        (pc[p] = "idle" /\ loc'[p].op \in ExecOps /\ pc'[p] # "idle"
                /\ ~ContainsKey(clients, loc'[p].id))
            => /\ pc'[p] = "done"
               /\ ret'[p] = Err("NotFound", "Not connected to database")
               /\ UNCHANGED <<registry, objects>>
      ]_vars

\* C10 witness: an execute on an id whose configuration is stored but which
\* has no live client has returned NotFound.
C10_Witness ==
    \E p \in Procs :
        /\ pc[p] = "done" /\ loc[p].op \in ExecOps
        /\ ret[p].kind = "NotFound"
        /\ ContainsCfg(connections, loc[p].id)
        /\ ~ContainsKey(clients, loc[p].id)
        /\ created = 0

\* The backend transaction of h has been asked to commit or to roll back.
Finalized(h) ==
    \E k \in 1..Len(backend[h]) : backend[h][k].op \in Finalizers

\* The callers whose call is inside the backend transaction of h.
Inside(h) == {c \in Callers : tcall[c].pc = "run" /\ tcall[c].h = h}

\* C11: once commit or rollback has reached the backend for a handle,
\* whatever the backend answers, every later commit, rollback or
\* execute_query on the handle ends with the Transaction error and asks the
\* backend nothing; the backend of a handle is asked to finalize at most once.
C11_FinalizedOnce ==
    [][/\ \A c \in Callers :
            (/\ tcall[c].pc = "lock" /\ tcall'[c].pc # "lock"
             /\ Finalized(tcall[c].h))
                => /\ tcall'[c].pc = "done"
                   /\ tcall'[c].ret = "Transaction"
                   /\ UNCHANGED <<tx, backend>>
       /\ \A h \in Handles :
            Cardinality({k \in 1..Len(backend'[h]) :
                            backend'[h][k].op \in Finalizers}) <= 1
      ]_vars

\* C11 witness: the commit or rollback of a handle has failed in the
\* backend, and a later call on the handle has been refused without a
\* backend action.
C11_Witness ==
    \E c \in Callers :
        /\ tcall[c].pc = "done" /\ tcall[c].ret = "Transaction" /\ tcall[c].k = 0
        /\ \E k \in 1..Len(backend[tcall[c].h]) :
            /\ backend[tcall[c].h][k].op \in Finalizers
            /\ backend[tcall[c].h][k].outcome = "Transaction"

\* C12: at most one call is inside the backend transaction of a handle; no
\* statement runs while or after the handle is finalized; and a call waiting
\* for a handle that no call is inside can go on, whatever happens on the
\* other handles.
C12_HandleSerialized ==
    /\ \A h \in Handles :
        /\ Cardinality(Inside(h)) <= 1
        /\ \A c \in Inside(h) : tcall[c].op = "execute_query" => ~Finalized(h)
        /\ \A j, k \in 1..Len(backend[h]) :
            (j < k /\ backend[h][j].op \in Finalizers)
                => backend[h][k].op # "execute_query"
    /\ \A c \in Callers :
        (tcall[c].pc = "lock" /\ Inside(tcall[c].h) = {}) => ENABLED TxLock(c)

\* C12 witness: one call runs inside a handle, a second waits for that
\* handle, a third runs inside the other handle.
C12_Witness ==
    \E c, d, e \in Callers :
        /\ tcall[c].pc = "run"
        /\ tcall[d].pc = "lock" /\ tcall[d].h = tcall[c].h
        /\ tcall[e].pc = "run" /\ tcall[e].h # tcall[c].h

\* C13: when a statement of the script fails in execute_queries, the call
\* ends there: the failed statement is the last one sent, and the call
\* returns the error and no result of the statements before it.
C13_BatchAbort ==
    /\ run.ret \notin {"none", "Ok"} => run.phase = "returned"
    /\ (run.phase = "returned" /\ run.ret # "Ok")
        => /\ run.results = <<>>
           /\ run.sent = SubSeq(scan.statements, 1, run.i + 1)

\* C13 witness: the second of three statements has failed; the third was
\* not sent and nothing but the error is returned.
C13_Witness ==
    /\ run.phase = "returned" /\ run.ret = "Query"
    /\ run.i = 1
    /\ Len(scan.statements) = 3
    /\ Len(run.sent) = 2
    /\ run.results = <<>>

\* C14: execute_queries sends the statements of the split script one at a
\* time in script order, a statement only when the one before it has
\* returned, and on success returns one result per statement in that order,
\* the k-th (from 0) carrying result_index k.
C14_SequentialIndexed ==
    run.phase \in {"loop", "await", "returned"}
        => /\ run.sent = SubSeq(scan.statements, 1, Len(run.sent))
           /\ Len(run.sent) \in {Len(run.results), Len(run.results) + 1}
                \/ (run.phase = "returned" /\ run.ret # "Ok")
           /\ run.phase = "await" <=> (run.ret = "none" /\ Len(run.sent) = Len(run.results) + 1)
           /\ (run.phase = "returned" /\ run.ret = "Ok")
                => /\ Len(run.results) = Len(scan.statements)
                   /\ \A k \in 1..Len(run.results) :
                        /\ run.results[k].sql = scan.statements[k]
                        /\ run.results[k].result_index = k - 1

\* C14 witness: a script of three statements has returned three results,
\* the last with result_index 2.
C14_Witness ==
    /\ run.phase = "returned" /\ run.ret = "Ok"
    /\ Len(scan.statements) = 3
    /\ Len(run.results) = 3
    /\ run.results[3].result_index = 2
    /\ run.sent = scan.statements

\* SQL quoting for text made of quotes and terminators: a ' opens or
\* closes a string literal unless it stands inside a quoted identifier, a "
\* opens or closes a quoted identifier unless it stands inside a string.
QuoteStep(q, c) ==
    CASE q = "none" /\ c = "'" -> "string"
      [] q = "none" /\ c = "\"" -> "identifier"
      [] q = "string" /\ c = "'" -> "none"
      [] q = "identifier" /\ c = "\"" -> "none"
      [] OTHER -> q

RECURSIVE QuoteAfter(_, _)
QuoteAfter(q, text) ==
    IF text = <<>> THEN q ELSE QuoteAfter(QuoteStep(q, Head(text)), Tail(text))

\* The literal or identifier that character k of text stands in, if any.
Enclosing(text, k) == QuoteAfter("none", SubSeq(text, 1, k - 1))

\* No mode flag of the scan is set.
NoMode(s) ==
    ~s.in_string /\ ~s.in_identifier /\ ~s.in_comment /\ ~s.in_block_comment

\* The step reads character c of the script.
Reads(c) == run.phase = "split" /\ pos' = pos + 1 /\ sql[pos'] = c

\* The step ends a statement: the buffer with the character read goes to
\* the list and is cleared.
EndsStatement ==
    /\ scan'.current_statement = <<>>
    /\ scan'.statements = Append(scan.statements,
                                 Trim(Append(scan.current_statement, sql[pos'])))

\* C15: the scan ends a statement at a ; exactly when it is in none of its
\* four modes there; a ; that stands inside a string literal or a quoted
\* identifier ends no statement and stays in the buffer; and
\* "SELECT ';' ; SELECT 1;" gives two statements, the first with its quoted
\* semicolon.
C15_TerminatorOutsideQuotes ==
    [][/\ Reads(";")
            => /\ EndsStatement <=> NoMode(scan)
               /\ (scan.in_string \/ scan.in_identifier)
                    => /\ scan'.statements = scan.statements
                       /\ scan'.current_statement = Append(scan.current_statement, ";")
               /\ (sql \in Strings(QuoteChars, MaxQuoteLen)
                        /\ Enclosing(sql, pos') # "none")
                    => /\ ~EndsStatement
                       /\ scan'.current_statement = Append(scan.current_statement, ";")
       /\ (run'.phase = "loop" /\ run.phase = "split" /\ sql = ScriptQuotedTerminator)
            => scan'.statements =
                    << <<"a", " ", "'", ";", "'", " ", ";">>, <<"a", " ", "a", ";">> >>
      ]_vars

\* The characters of quote-free text that are no comment text: a comment
\* runs from -- to the end of the line (the line end is not part of it) or
\* from /* through the next */.
RECURSIVE Uncommented(_, _)
Uncommented(mode, text) ==
    IF text = <<>> THEN <<>>
    ELSE LET two == IF Len(text) >= 2 THEN SubSeq(text, 1, 2) ELSE <<>>
             rest2 == SubSeq(text, 3, Len(text))
         IN  CASE mode = "none" /\ two = <<"-", "-">> -> Uncommented("line", rest2)
               [] mode = "none" /\ two = <<"/", "*">> -> Uncommented("block", rest2)
               [] mode = "none" /\ two \notin {<<"-", "-">>, <<"/", "*">>}
                    -> <<Head(text)>> \o Uncommented("none", Tail(text))
               [] mode = "line" /\ Head(text) = "\n"
                    -> <<"\n">> \o Uncommented("none", Tail(text))
               [] mode = "line" /\ Head(text) # "\n" -> Uncommented("line", Tail(text))
               [] mode = "block" /\ two = <<"*", "/">> -> Uncommented("none", rest2)
               [] mode = "block" /\ two # <<"*", "/">> -> Uncommented("block", Tail(text))

RECURSIVE Concat(_)
Concat(list) == IF list = <<>> THEN <<>> ELSE Head(list) \o Concat(Tail(list))

IsBlack(c) == c \notin Whitespace
Squeeze(text) == SelectSeq(text, IsBlack)

QuoteFree(text) == \A k \in 1..Len(text) : text[k] \notin {"'", "\""}

\* The splitter has returned.
SplitDone == run.phase \in {"loop", "await", "returned"}

\* C16: no comment text is in the emitted statements: with white space set
\* aside, the statements of a quote-free script consist of exactly its
\* characters outside comments, and "SELECT 1; -- comment\nSELECT 2;" gives
\* ["SELECT 1;", "SELECT 2;"].
C16_CommentsStripped ==
    SplitDone
        => /\ QuoteFree(sql)
                => Squeeze(Concat(scan.statements)) = Squeeze(Uncommented("none", sql))
           /\ sql = ScriptLineComment
                => scan.statements = << <<"a", " ", "a", ";">>, <<"a", " ", "a", ";">> >>

\* The comment that quote-free text ends in, if any.
RECURSIVE CommentAfter(_, _)
CommentAfter(mode, text) ==
    IF text = <<>> THEN mode
    ELSE LET two == IF Len(text) >= 2 THEN SubSeq(text, 1, 2) ELSE <<>>
             rest2 == SubSeq(text, 3, Len(text))
         IN  CASE mode = "none" /\ two = <<"-", "-">> -> CommentAfter("line", rest2)
               [] mode = "none" /\ two = <<"/", "*">> -> CommentAfter("block", rest2)
               [] mode = "none" /\ two \notin {<<"-", "-">>, <<"/", "*">>}
                    -> CommentAfter("none", Tail(text))
               [] mode = "line" /\ Head(text) = "\n" -> CommentAfter("none", Tail(text))
               [] mode = "line" /\ Head(text) # "\n" -> CommentAfter("line", Tail(text))
               [] mode = "block" /\ two = <<"*", "/">> -> CommentAfter("none", rest2)
               [] mode = "block" /\ two # <<"*", "/">> -> CommentAfter("block", Tail(text))

\* The construct text ends in: for text of quotes and terminators the open
\* literal or identifier, for quote-free text the open comment.
OpenAtEnd(text) ==
    IF QuoteFree(text)
    THEN CommentAfter("none", text)
    ELSE QuoteAfter("none", text)

\* The message that names construct.
Unclosed(construct) ==
    CASE construct = "string" -> "Unclosed string literal"
      [] construct = "identifier" -> "Unclosed quoted identifier"
      [] construct = "block" -> "Unclosed block comment"
      [] OTHER -> "none"

\* C17: the splitter of db/utils/strings.rs returns the Parsing error that
\* names the open construct exactly when the script ends inside a string
\* literal, a quoted identifier or a block comment, and a statement list
\* when it ends inside a line comment or in no construct;
\* "SELECT 'unterminated" is an error.
C17_UnclosedIsError ==
    SplitDone
        => /\ (QuoteFree(sql) \/ sql \in Strings(QuoteChars, MaxQuoteLen))
                => IF OpenAtEnd(sql) \in {"string", "identifier", "block"}
                   THEN /\ SplitResult(scan).kind = "Parsing"
                        /\ SplitResult(scan).msg = Unclosed(OpenAtEnd(sql))
                   ELSE /\ SplitResult(scan).kind = "Ok"
                        /\ SplitResult(scan).statements = scan.statements
           /\ sql = ScriptUnterminated
                => /\ SplitResult(scan).kind = "Parsing"
                   /\ SplitResult(scan).msg = "Unclosed string literal"

\* A statement without the terminator at its end.
Unterminated(statement) ==
    IF statement # <<>> /\ statement[Len(statement)] = ";"
    THEN SubSeq(statement, 1, Len(statement) - 1)
    ELSE statement

\* C18: no emitted statement is empty: the text of every statement, without
\* its terminator, has a character that is not white space; and
\* "SELECT 1; ; SELECT 2;" and "SELECT 1;;SELECT 2;" give two statements.
C18_EmptyDropped ==
    SplitDone
        => /\ \A k \in 1..Len(scan.statements) :
                Trim(Unterminated(scan.statements[k])) # <<>>
           /\ sql \in {ScriptBlankStatement, ScriptEmptyStatement}
                => Len(scan.statements) = 2

\* The statements of list with a ; between each two.
RECURSIVE Join(_)
Join(list) ==
    IF list = <<>> THEN <<>>
    ELSE IF Len(list) = 1 THEN Head(list)
    ELSE Head(list) \o <<";">> \o Join(Tail(list))

\* No comment opens in text.
CommentFree(text) ==
    \A k \in 1..(Len(text) - 1) :
        <<text[k], text[k + 1]>> \notin {<<"-", "-">>, <<"/", "*">>}

\* C19: for a comment-free script that splits without error, splitting the
\* statements joined with ; gives the same statements again.
C19_SplitterIdempotent ==
    (SplitDone /\ CommentFree(sql) /\ SplitResult(scan).kind = "Ok")
        => split_sql_statements(Join(scan.statements)) = scan.statements

\* The characters of part occur in text in the same order.
RECURSIVE IsSubsequence(_, _)
IsSubsequence(part, text) ==
    IF part = <<>> THEN TRUE
    ELSE IF text = <<>> THEN FALSE
    ELSE IF Head(part) = Head(text) THEN IsSubsequence(Tail(part), Tail(text))
    ELSE IsSubsequence(part, Tail(text))

\* C20: at the end of the script the buffer, trimmed, becomes the last
\* statement when it is not empty, terminated or not, and adds nothing when
\* it is empty or white space; the list only grows at its end while the
\* script is read, so the statements stand in script order.
C20_TrailingStatement ==
    [][/\ (run.phase = "split" /\ run'.phase = "loop")
            => scan'.statements =
                    IF Trim(scan.current_statement) # <<>>
                    THEN Append(scan.statements, Trim(scan.current_statement))
                    ELSE scan.statements
       /\ (run.phase = "split" /\ pos' = pos + 1)
            => \/ scan'.statements = scan.statements
               \/ /\ Len(scan'.statements) = Len(scan.statements) + 1
                  /\ SubSeq(scan'.statements, 1, Len(scan.statements)) = scan.statements
       /\ run'.phase = "loop" => IsSubsequence(Concat(scan'.statements), sql)
      ]_vars

\* C20 witness: a script of two statements, the second without a
\* terminator, has been split into both.
C20_Witness ==
    /\ SplitDone
    /\ sql # <<>>
    /\ sql[Len(sql)] = "a"
    /\ Len(scan.statements) = 2
    /\ scan.statements[1] = <<"a", ";">>
    /\ scan.statements[2][Len(scan.statements[2])] = "a"

\* The leading keyword of a statement: its first word, in upper case.
LeadingKeyword(text) == to_uppercase(LetterRun(TrimStart(text)))

\* C21: every QueryResult execute_query returns has rows_affected None
\* exactly when the statement's leading keyword, after leading whitespace
\* and in either case, is SELECT; with rows_affected set, rows and columns
\* are empty and rows_affected is the count the driver reported; and a
\* SELECT that matched no row has no rows, rows_affected None and the
\* columns that describing the statement gave.
C21_ResultClassification ==
    (query.phase = "returned" /\ query.ret.kind = "Ok") =>
        /\ query.ret.rows_affected = None
              <=> LeadingKeyword(query.sql) = SELECT
        /\ query.ret.rows_affected # None =>
              /\ query.ret.rows = <<>>
              /\ query.ret.columns = <<>>
              /\ query.ret.rows_affected = query.affected
        /\ (LeadingKeyword(query.sql) = SELECT /\ query.fetched = <<>>) =>
              /\ query.ret.rows = <<>>
              /\ query.ret.rows_affected = None
              /\ query.asked = <<"fetch_all", "describe">>
              /\ query.ret.columns = query.described

\* A configuration with its required fields present: host, database and
\* username, or the path of an SQLite database.
Complete(c) ==
    /\ c.connection_string = None
    /\ IF c.db_type = "SQLite"
       THEN c.host # None \/ c.database # None
       ELSE c.host # None /\ c.database # None /\ c.username # None

\* C22: parsing the connection string a complete configuration resolves to
\* gives the configuration back, field for field: id, name, backend kind,
\* host, port, database, username, password and options.
C22_RoundTrip ==
    (conv.phase = "parsed" /\ Complete(conv.cfg)) =>
        /\ conv.parsed.kind = "Ok"
        /\ \A f \in {"id", "name", "db_type", "host", "port", "database",
                     "username", "password", "options"} :
               conv.parsed.value[f] = conv.cfg[f]

\* C23: update(id, cfg) and remove(id) on an id that has no stored
\* configuration return NotFound and leave the configuration map and the
\* live-client map as they are: the first step of such a call changes
\* neither map, update returns NotFound in it, and remove returns NotFound
\* when it finds no configuration to delete.
C23_UnknownIdNotFound ==
    [][\A p \in Procs :
        /\ (pc[p] = "idle" /\ StepOf(p, "update")
                /\ ~ContainsCfg(connections, loc'[p].id))
             => /\ pc'[p] = "done"
                /\ ret'[p].kind = "NotFound"
                /\ connections' = connections
                /\ clients' = clients
        /\ (pc[p] = "idle" /\ StepOf(p, "remove")
                /\ ~ContainsCfg(connections, loc'[p].id))
             => /\ connections' = connections
                /\ clients' = clients
        /\ (pc[p] = "rem_conns" /\ StepOf(p, "remove")
                /\ ~ContainsCfg(connections, loc[p].id))
             => /\ ret'[p].kind = "NotFound"
                /\ connections' = connections
                /\ clients' = clients
      ]_vars

\* C24: connect(id) and test_connection(id) on an id whose stored
\* configuration is of the backend kind without an implementation return
\* Unsupported and leave no live client stored for id: the call does not
\* return in its first step with anything else, the client it builds fails
\* to connect with Unsupported, and the map holds no client for id then.
C24_UnimplementedBackend ==
    [][\A p \in Procs :
        /\ (pc[p] = "idle" /\ pc'[p] = "done"
                /\ loc'[p].op \in {"connect", "test_connection"}
                /\ connections[loc'[p].id].db_type = "MySQL")
             => /\ ret'[p].kind = "Unsupported"
                /\ ~ContainsKey(clients', loc'[p].id)
        /\ (pc[p] = "con_dial" /\ StepOf(p, "connect")
                /\ cinfo[loc[p].client].db_type = "MySQL")
             => /\ pc'[p] = "done"
                /\ ret'[p].kind = "Unsupported"
                /\ ~slot'[loc[p].client]
                /\ clients' = clients
                /\ connections[loc[p].id].db_type = "MySQL"
                      => ~ContainsKey(clients', loc[p].id)
      ]_vars

\* C25: in every list get_entities returns, the schema of each entity that
\* is not a Schema is the name of a Schema entity of the same list, also
\* when a schema is dropped or created between the queries of the call.
C25_SchemaForest ==
    (intro.phase = "returned" /\ intro.ret = "Ok") =>
        \A i \in DOMAIN intro.entities :
            intro.entities[i].entity_type # "Schema" =>
                \E j \in DOMAIN intro.entities :
                    /\ intro.entities[j].entity_type = "Schema"
                    /\ intro.entities[j].name = intro.entities[i].schema

\* The (schema, table) key of a row, and the rows sorted by schema, table
\* and column position.
KeyOf(row) == <<row.schema_name, row.table_name>>
RowBefore(r, s) ==
    \/ Rank[r.schema_name] < Rank[s.schema_name]
    \/ /\ r.schema_name = s.schema_name
       /\ \/ Rank[r.table_name] < Rank[s.table_name]
          \/ /\ r.table_name = s.table_name
             /\ Rank[r.column_name] <= Rank[s.column_name]
Sorted(rows) ==
    \A i, j \in DOMAIN rows : i < j => RowBefore(rows[i], rows[j])

\* The distinct keys of the rows, in the order of their first rows.
RECURSIVE KeysOf(_)
KeysOf(rows) ==
    IF rows = <<>> THEN <<>>
    ELSE LET before == KeysOf(SubSeq(rows, 1, Len(rows) - 1))
             k == KeyOf(rows[Len(rows)])
         IN  IF \E i \in DOMAIN before : before[i] = k
             THEN before ELSE Append(before, k)

\* The columns of the rows of key k, in the order of the rows.
RECURSIVE ColumnsOf(_, _)
ColumnsOf(rows, k) ==
    IF rows = <<>> THEN <<>>
    ELSE (IF KeyOf(Head(rows)) = k THEN <<ColumnInfo(Head(rows))>> ELSE <<>>)
            \o ColumnsOf(Tail(rows), k)

\* C26: over rows sorted by schema, table and column position, the list
\* get_tables_info returns has one TableInfo for each distinct (schema,
\* table) of the rows, in the order of the rows; its columns are the rows
\* of that table in their order and its primary_key_columns are the names
\* of those of them flagged is_primary; no row gives the empty list, and
\* the last table is in the list.
C26_OneTablePerKey ==
    (build.phase = "returned" /\ build.ret = "Ok" /\ Sorted(build.rows)) =>
        LET keys == KeysOf(build.rows) IN
        /\ Len(build.tables) = Len(keys)
        /\ \A n \in DOMAIN keys :
            LET t == build.tables[n]
                columns == ColumnsOf(build.rows, keys[n]) IN
            /\ <<t.schema, t.name>> = keys[n]
            /\ t.columns = columns
            /\ Len(t.primary_key_columns)
                 = Cardinality({i \in DOMAIN columns : columns[i].primary_key})
            /\ \A i \in DOMAIN t.primary_key_columns :
                 \E j \in DOMAIN columns :
                    /\ columns[j].primary_key
                    /\ columns[j].name = t.primary_key_columns[i]
                    /\ Cardinality({h \in 1..j : columns[h].primary_key}) = i

\* Two tables with two columns between them and a primary key came back.
C26_Witness ==
    /\ build.phase = "returned"
    /\ build.ret = "Ok"
    /\ Sorted(build.rows)
    /\ Len(KeysOf(build.rows)) = 2
    /\ Len(build.tables) = 2
    /\ Len(build.tables[1].columns) = 2
    /\ build.tables[1].primary_key_columns # <<>>
    /\ build.tables[2].primary_key_columns = <<>>

\* Caller c takes the first step of a call of operation op on the client.
PgBegins(c, op) == pgc.call[c].pc = "idle" /\ pgc'.call[c].op = op

\* C27: connect on a client that holds a pool returns Ok and builds none;
\* a pool is built only while the client holds none, so that under every
\* interleaving of connect calls at most one pool is built and stored:
\* every pool built and not closed is the one in the field.
C27_ConnectBuildsOnce ==
    [][/\ pgc'.open \subseteq {pgc'.slot}
       /\ pgc'.built # pgc.built => pgc.slot = 0 /\ pgc.open = {}
       /\ \A c \in Callers :
            (PgBegins(c, "connect") /\ pgc.slot # 0)
                => /\ pgc'.call[c].pc = "done"
                   /\ pgc'.call[c].ret = Ok
                   /\ pgc'.built = pgc.built
                   /\ pgc'.slot = pgc.slot
      ]_vars

\* Three callers have connected the client, and one pool was built.
C27_Witness ==
    /\ \A c \in Callers :
         /\ pgc.call[c].pc = "done"
         /\ pgc.call[c].op = "connect"
         /\ pgc.call[c].ret = Ok
    /\ pgc.built = 1
    /\ pgc.slot = 1

\* C28: disconnect on a client that holds a pool takes the pool out of the
\* field and closes it; on a client that holds none it returns Ok and
\* changes nothing; it always returns Ok; and while the field is empty
\* execute_query and the introspection calls fail with the Connection error
\* "Not connected to database", the field being filled by connect only.
C28_DisconnectIdempotent ==
    [][\A c \in Callers :
        /\ (PgBegins(c, "disconnect") /\ pgc.slot # 0)
             => /\ pgc'.slot = 0
                /\ pgc.slot \notin pgc'.open
        /\ (PgBegins(c, "disconnect") /\ pgc.slot = 0)
             => /\ pgc'.call[c].pc = "done"
                /\ pgc'.call[c].ret = Ok
                /\ pgc'.slot = 0
                /\ pgc'.open = pgc.open
                /\ pgc'.built = pgc.built
        /\ (pgc.call[c].pc = "closing" /\ pgc'.call[c].pc = "done")
             => /\ pgc'.call[c].ret = Ok
                /\ pgc'.slot = 0
        /\ (\E op \in {"execute_query"} \cup Introspections : PgBegins(c, op))
                /\ pgc.slot = 0
             => /\ pgc'.call[c].pc = "done"
                /\ pgc'.call[c].ret
                     = Err("Connection", "Not connected to database")
        /\ (pgc.slot = 0 /\ pgc'.slot # 0)
             => \E d \in Callers : /\ pgc.call[d].op = "connect"
                                   /\ pgc.call[d].pc = "dialing"
      ]_vars

\* A disconnect that closed the pool, a second one on the disconnected
\* client, and an execute_query after them have returned.
C28_Witness ==
    \E c, d, e \in Callers :
        /\ pgc.call[c].pc = "done" /\ pgc.call[c].op = "disconnect"
        /\ pgc.call[c].pool # 0 /\ pgc.call[c].ret = Ok
        /\ pgc.call[d].pc = "done" /\ pgc.call[d].op = "disconnect"
        /\ pgc.call[d].pool = 0 /\ pgc.call[d].ret = Ok
        /\ pgc.call[e].pc = "done" /\ pgc.call[e].op = "execute_query"
        /\ pgc.call[e].ret = Err("Connection", "Not connected to database")
        /\ pgc.slot = 0

\* C29: test_connection, called on a client and called on the manager,
\* changes nothing that lasts: no step of it changes the pool field of a
\* client, the state of a client's pool, the connections map or the
\* clients map, whatever it returns.
C29_TestConnectionChangesNothing ==
    [][\A p \in Procs :
        (StepOf(p, "test_connection") \/ StepOf(p, "client.test_connection"))
            => /\ slot' = slot
               /\ pool' = pool
               /\ connections' = connections
               /\ clients' = clients
      ]_vars

\* test_connection(id) succeeded on an id that has no live client, and
\* test_connection succeeded on a client without a pool: the id has no
\* live client and the client has no pool.
C29_Witness ==
    \E p, q \in Procs :
        /\ pc[p] = "done" /\ loc[p].op = "test_connection"
        /\ ret[p] = Ok
        /\ ~ContainsKey(clients, loc[p].id)
        /\ pc[q] = "done" /\ loc[q].op = "client.test_connection"
        /\ ret[q] = Ok
        /\ ~slot[loc[q].client]

\* C30: a call that failed on a pool that gave no connection in time, on a
\* closed pool or on a crashed worker has returned a Connection error.
C30_PoolFailureIsConnectionError ==
    \A c \in Callers :
        (pgc.call[c].pc = "done" /\ pgc.call[c].ret.msg \in PoolFailures)
            => pgc.call[c].ret.kind = "Connection"

\* The mode flags of the scan that are set.
ModesSet(s) ==
    {f \in {"in_string", "in_identifier", "in_comment", "in_block_comment"} : s[f]}

\* C32: after every character the scan reads, at most one of in_string,
\* in_identifier, in_comment and in_block_comment is set, and a ' read while
\* in_identifier is set and in_string is not does not set in_string.
C32_ModesExclusive ==
    [][(run.phase = "split" /\ pos' = pos + 1)
            => /\ Cardinality(ModesSet(scan')) <= 1
               /\ (sql[pos'] = "'" /\ scan.in_identifier /\ ~scan.in_string)
                    => ~scan'.in_string
      ]_vars

\* C33: execute_queries on a script that ends inside a string literal, a
\* quoted identifier or a block comment hands no statement to execute_query
\* and returns the Parsing error.
C33_UnclosedScriptSendsNothing ==
    (/\ SplitDone
     /\ QuoteFree(sql) \/ sql \in Strings(QuoteChars, MaxQuoteLen)
            \/ sql = ScriptUnterminated
     /\ OpenAtEnd(sql) \in {"string", "identifier", "block"})
        => /\ run.sent = <<>>
           /\ run.phase = "returned" => run.ret = "Parsing"

\* C34: a connect(id) whose dial is refused returns the Connection error
\* after that one dial, and no step of a connect before the store changes
\* the connections map or the clients map, so the id has no live client
\* through it and keeps its configuration; the failure is not remembered: a
\* connect(id) that finds no live client reads the configuration, builds a
\* new client and dials it.
C34_FailedConnectChangesNothing ==
    [][\A p \in Procs :
        /\ (pc[p] = "con_dial" /\ StepOf(p, "connect") /\ pc'[p] = "done"
                /\ ret'[p].kind = "Connection")
            => /\ loc'[p].dials = 1
               /\ ret'[p].client = NoClient
               /\ pool'[loc[p].client] = "failed"
               /\ clients'[loc[p].id] # loc[p].client
        /\ (pc[p] \in {"idle", "con_get", "con_dial"} /\ StepOf(p, "connect"))
            => /\ connections' = connections
               /\ clients' = clients
        /\ (pc[p] = "idle" /\ StepOf(p, "connect")
                /\ ~ContainsKey(clients, loc'[p].id))
            => pc'[p] = "con_get"
        /\ (pc[p] = "con_get" /\ StepOf(p, "connect")
                /\ ContainsCfg(connections, loc[p].id))
            => /\ pc'[p] = "con_dial"
               /\ loc'[p].dials = 0
               /\ pool[loc'[p].client] = "unbuilt"
      ]_vars

\* C34 witness: a connect(id) has returned the refusal of its one dial, the
\* id has no live client and has its configuration, and a later connect(id)
\* has built another client that it is about to dial.
C34_Witness ==
    \E p, q \in Procs :
        /\ pc[p] = "done" /\ loc[p].op = "connect"
        /\ ret[p].kind = "Connection" /\ loc[p].dials = 1
        /\ ~ContainsKey(clients, loc[p].id)
        /\ ContainsCfg(connections, loc[p].id)
        /\ pc[q] = "con_dial" /\ loc[q].id = loc[p].id
        /\ loc[q].client > loc[p].client

\* C35: every stored configuration is stored under its own id.
C35_KeyedByOwnId ==
    \A k \in Ids : ContainsCfg(connections, k) => connections[k].id = k

\* C36: the live client of an id holds the configuration that is stored
\* for the id.
C36_LiveClientOfStoredConfig ==
    \A id \in Ids :
        ContainsKey(clients, id) => cinfo[clients[id]] = connections[id]

\* C37: an id that has no stored configuration gets one only by an add (or
\* by the load of a project, which adds): no step of an update stores a
\* configuration for an id that a remove has cleared.
C37_NoInsertAfterRemove ==
    [][\A id \in Ids :
        (~ContainsCfg(connections, id) /\ ContainsCfg(connections', id))
            => \E p \in Procs : /\ loc'[p] # loc[p]
                                /\ loc'[p].op \in {"add", "load"}
      ]_vars

\* The rows cut into runs: a run is a longest stretch of consecutive rows
\* of one (schema, table).
RECURSIVE Runs(_)
Runs(rows) ==
    IF rows = <<>> THEN <<>>
    ELSE LET before == Runs(SubSeq(rows, 1, Len(rows) - 1))
             row == rows[Len(rows)]
         IN  IF before # <<>> /\ KeyOf(before[Len(before)][1]) = KeyOf(row)
             THEN [before EXCEPT ![Len(before)] = Append(@, row)]
             ELSE Append(before, <<row>>)

\* The rows of key k stand next to each other.
Contiguous(rows, k) ==
    \A i, j \in DOMAIN rows :
        (i < j /\ KeyOf(rows[i]) = k /\ KeyOf(rows[j]) = k)
            => \A h \in i..j : KeyOf(rows[h]) = k

\* The TableInfos of key k in the list.
TablesOf(tables, k) == {n \in DOMAIN tables : <<tables[n].schema, tables[n].name>> = k}

Recognized ==
    IntegerTypes \cup FloatTypes \cup BooleanTypes \cup StringTypes
        \cup DateTimeTypes \cup JsonTypes \cup UuidTypes \cup BinaryTypes

\* C31: for every declared type name and every raw value the column's value
\* is null, a number, a boolean, a string, a JSON value or the binary
\* marker, and the call returns Ok with a value for every column; a NULL
\* gives null; a type name without an arm gives the string read when it
\* succeeds and null when it fails.
C31_SerializationTotal ==
    [][/\ ser'.phase \in {"loop", "column", "returned"}
            => /\ ser'.ret \in {"none", "Ok"}
               /\ ser'.phase = "returned"
                    => ser'.ret = "Ok" /\ Len(ser'.values) = ser.n
       /\ (ser.phase = "column" /\ ser'.phase = "loop")
            => LET data_type == ser.column.data_type
                   raw == ser.column.raw
                   value == ser'.values[Len(ser'.values)] IN
               /\ Len(ser'.values) = Len(ser.values) + 1
               /\ value.kind \in {"null", "number", "boolean", "string", "json",
                                  "binary marker"}
               /\ raw.state = "null" => value.kind = "null"
               /\ (raw.state = "value" /\ to_lowercase(data_type) \notin Recognized)
                    => IF "String" \in raw.reads
                       THEN value.kind = "string" /\ value.from = "String"
                       ELSE value.kind = "null"
      ]_vars

\* C31 witness: a row of two columns was converted: a column whose type
\* name has no arm gave its string, and one whose value is no string gave
\* null.
C31_Witness ==
    /\ ser.phase = "returned"
    /\ ser.ret = "Ok"
    /\ ser.values = <<JsonValue("string", "String", "default"), ValueNull("default")>>

\* C39: cleanup_all comes to its end, stated in the form a finite run can
\* refute: a cleanup_all never stands at a windows.write() while it holds
\* the windows lock itself, it never panics, and when it has returned, the
\* map is empty and remove_connection has been called for every window that
\* was registered.
C39_CleanupAllReturns ==
    app.phase = "run" =>
        \A t \in Tasks :
            LET f == app.task[t] IN
            f.op = "cleanup_all"
                => /\ ~(f.pc = "cw_lock" /\ app.writer = t)
                   /\ f.pc # "panicked"
                   /\ f.pc = "done"
                        => /\ \A w \in WindowIds : app.windows[w] = NoProject
                           /\ f.found \subseteq app.asked

====
